---- MODULE Spec2Model ----
(***************************************************************************)
(* Tool-calling agent loops of the repository:                            *)
(*   BashAgent        (04_responses_api_agent_demo.py)                     *)
(*   DocsAgent        (06_responses_api_mcp_demo.py)                       *)
(*   BashAndMcpAgent  (07_responses_api_bash_and_mcp_agent_demo.py)        *)
(* The inference service, the command executor, the remote tool server    *)
(* and the human at the confirmation prompt are the environment: each of  *)
(* their answers is a nondeterministic choice from a small set.           *)
(***************************************************************************)
EXTENDS Integers, Sequences, FiniteSets, TLC

\* ------------------------------------------------------------------ bounds
\* largest max_steps an agent is constructed with
MaxSteps == 2
\* number of run() calls made on one agent instance
MaxRuns == 2
\* largest number of output items in one model response
MaxItems == 2
\* largest number of tool descriptors in one batch handed to the bridge
MaxTools == 2
MaxParts == 2
MaxCalls == 2
MaxOps == 3

\* ------------------------------------------------------------------ values
\* Python's None, for string-valued attributes
None == "None"
\* self.response_id = None (no continuation handle yet)
NoHandle == 0

Agents == {"BashAgent", "DocsAgent", "BashAndMcpAgent"}

\* Python truthiness of an optional string
Truthy(s) == s # None /\ s # ""

\* str.strip() on the texts the service returns
RECURSIVE LStrip(_)
LStrip(s) == IF Len(s) > 0 /\ Head(s) = " " THEN LStrip(Tail(s)) ELSE s

RECURSIVE RStrip(_)
RStrip(s) ==
    IF Len(s) > 0 /\ SubSeq(s, Len(s), Len(s)) = " "
    THEN RStrip(SubSeq(s, 1, Len(s) - 1))
    ELSE s

Strip(s) == RStrip(LStrip(s))

\* ", ".join(keys)
RECURSIVE Join(_, _)
Join(keys, sep) ==
    IF Len(keys) = 0 THEN ""
    ELSE IF Len(keys) = 1 THEN keys[1]
    ELSE keys[1] \o sep \o Join(Tail(keys), sep)

\* substring test on strings
Contains(s, t) ==
    \E i \in 1..(Len(s) - Len(t) + 1) : SubSeq(s, i, i + Len(t) - 1) = t

\* str.startswith
BeginsWith(s, p) == Len(s) >= Len(p) /\ SubSeq(s, 1, Len(p)) = p

\* ------------------------------------------------------------------ the bridge
\* 05_context7_bridge_tools.py: names of remote tools become function names
SERVER_LABEL == "context7"

\* n[:64]
NameLimit == 64

Lowercase == "abcdefghijklmnopqrstuvwxyz"
Uppercase == "ABCDEFGHIJKLMNOPQRSTUVWXYZ"
Digits == "0123456789"

\* position of the character c in the string str, 0 when absent
IndexIn(c, str) ==
    IF \E i \in 1..Len(str) : SubSeq(str, i, i) = c
    THEN CHOOSE i \in 1..Len(str) : SubSeq(str, i, i) = c
    ELSE 0

IsLower(c) == IndexIn(c, Lowercase) > 0
IsUpper(c) == IndexIn(c, Uppercase) > 0
IsDigit(c) == IndexIn(c, Digits) > 0

\* str.lower() on one character
LowerChar(c) ==
    IF IsUpper(c)
    THEN SubSeq(Lowercase, IndexIn(c, Uppercase), IndexIn(c, Uppercase))
    ELSE c

\* n.lower() followed by re.sub(r"[^a-z0-9_]", "_", n), one character
LowerAndReplaceChar(ch) ==
    LET c == LowerChar(ch)
    IN  IF IsLower(c) \/ IsDigit(c) \/ c = "_" THEN c ELSE "_"

\* n.lower() followed by re.sub(r"[^a-z0-9_]", "_", n): character by character,
\* computed on the two halves of the string
RECURSIVE LowerAndReplace(_)
LowerAndReplace(s) ==
    IF Len(s) = 0 THEN ""
    ELSE IF Len(s) = 1 THEN LowerAndReplaceChar(s)
    ELSE LET h == Len(s) \div 2
         IN  LowerAndReplace(SubSeq(s, 1, h)) \o LowerAndReplace(SubSeq(s, h + 1, Len(s)))

\* re.sub(r"_+", "_", n): every run of underscores becomes one underscore; computed
\* on the two halves of the string, with the run across the seam merged
RECURSIVE CollapseUnderscores(_)
CollapseUnderscores(s) ==
    IF Len(s) <= 1 THEN s
    ELSE LET h == Len(s) \div 2
             l == CollapseUnderscores(SubSeq(s, 1, h))
             r == CollapseUnderscores(SubSeq(s, h + 1, Len(s)))
         IN  IF SubSeq(l, Len(l), Len(l)) = "_" /\ SubSeq(r, 1, 1) = "_"
             THEN l \o SubSeq(r, 2, Len(r))
             ELSE l \o r

\* n.strip("_")
RECURSIVE StripUnderscores(_)
StripUnderscores(s) ==
    IF Len(s) > 0 /\ SubSeq(s, 1, 1) = "_" THEN StripUnderscores(SubSeq(s, 2, Len(s)))
    ELSE IF Len(s) > 0 /\ SubSeq(s, Len(s), Len(s)) = "_"
         THEN StripUnderscores(SubSeq(s, 1, Len(s) - 1))
         ELSE s

\* re.match(r"^[a-zA-Z_]", n)
StartsLikeIdentifier(s) ==
    /\ Len(s) > 0
    /\ LET c == SubSeq(s, 1, 1) IN IsLower(c) \/ IsUpper(c) \/ c = "_"

Truncate(s, k) == IF Len(s) <= k THEN s ELSE SubSeq(s, 1, k)

\* a sanitizer that prepends "tool_" to every name, not only to those that need it
Mutant_sanitize_always_tool(name, prefix) ==
    LET n1 == LowerAndReplace(Strip(name))
        n2 == StripUnderscores(CollapseUnderscores(n1))
        n3 == "tool_" \o (IF n2 = "" THEN "mcp" ELSE n2)
        n4 == IF prefix # "" THEN prefix \o "__" \o n3 ELSE n3
    IN  Truncate(n4, NameLimit)

_sanitize_function_name(name, prefix) ==
    LET n1 == LowerAndReplace(Strip(name))
        n2 == StripUnderscores(CollapseUnderscores(n1))
        n3 == IF n2 = "" \/ ~StartsLikeIdentifier(n2)
              THEN "tool_" \o (IF n2 = "" THEN "mcp" ELSE n2)
              ELSE n2
        n4 == IF prefix # "" THEN prefix \o "__" \o n3 ELSE n3
    IN  Truncate(n4, NameLimit)

\* ------------------------------------------------------------------ Python objects
\* A Python value: None, a string, a number, a list (kept as its text), or a
\* reference to a dict on the heap; "absent" is an attribute the object lacks.
\* The heap is the sequence of the dicts allocated so far; a dict maps its keys to
\* values.
Obj(kind, atom, ref) == [kind |-> kind, atom |-> atom, ref |-> ref]
ObjAbsent == Obj("absent", "", 0)
ObjNone == Obj("none", "", 0)
ObjStr(text) == Obj("str", text, 0)
ObjInt(text) == Obj("int", text, 0)
ObjList(text) == Obj("list", text, 0)
ObjDict(a) == Obj("dict", "", a)

\* getattr(t, field, default)
Getattr(v, default) == IF v.kind = "absent" THEN default ELSE v

\* bool(v)
IsTruthy(h, v) ==
    CASE v.kind = "none" -> FALSE
      [] v.kind = "absent" -> FALSE
      [] v.kind = "str" -> v.atom # ""
      [] v.kind = "int" -> v.atom # "0"
      [] v.kind = "list" -> v.atom # "[]"
      [] v.kind = "dict" -> DOMAIN h[v.ref] # {}
      [] v.kind = "object" -> TRUE

\* the dicts a dict refers to
Children(h, a) == { h[a][k].ref : k \in { k \in DOMAIN h[a] : h[a][k].kind = "dict" } }

\* the dicts reachable from the dict at address a, itself included
RECURSIVE ReachFrom(_, _, _)
ReachFrom(h, frontier, seen) ==
    IF frontier \subseteq seen
    THEN seen
    ELSE ReachFrom(h, UNION { Children(h, a) : a \in frontier \ seen },
                   seen \cup frontier)

Reach(h, a) == ReachFrom(h, {a}, {})

\* a copy that duplicates the outer dict only and keeps its references
Mutant_deepcopy_shallow(h, a) ==
    [heap |-> Append(h, h[a]), value |-> ObjDict(Len(h) + 1)]

\* copy.deepcopy(s) of the dict at address a: every reachable dict is allocated
\* anew and the references inside the copies point at the copies
deepcopy(h, a) ==
    LET R == Reach(h, a)
        rank(x) == Cardinality({ y \in R : y <= x })
        new(x) == Len(h) + rank(x)
        nth(i) == CHOOSE x \in R : rank(x) = i
        copy(x) == [ k \in DOMAIN h[x] |->
                       IF h[x][k].kind = "dict"
                       THEN ObjDict(new(h[x][k].ref))
                       ELSE h[x][k] ]
    IN  [heap |-> h \o [ i \in 1..Cardinality(R) |-> copy(nth(i)) ],
         value |-> ObjDict(new(a))]

\* d[key] = value
DictSet(d, key, value) ==
    [ k \in (DOMAIN d) \cup {key} |-> IF k = key THEN value ELSE d[k] ]

\* d.pop(key, None)
DictPop(d, key) == [ k \in (DOMAIN d) \ {key} |-> d[k] ]

\* the literal {"type": "object", "properties": {}}
DefaultSchema(h) ==
    [heap |-> h \o << << >>,
                       ("type" :> ObjStr("object"))
                          @@ ("properties" :> ObjDict(Len(h) + 1)) >>,
     value |-> ObjDict(Len(h) + 2)]

\* a normalizer whose fallback lacks the properties key
Mutant_normalize_no_properties(h, s) ==
    IF s.kind # "dict"
    THEN [heap |-> Append(h, ("type" :> ObjStr("object"))),
          value |-> ObjDict(Len(h) + 1)]
    ELSE LET c == deepcopy(h, s.ref)
             a == c.value.ref
             popped == DictPop(c.heap[a], "$schema")
             typed == IF "type" \notin DOMAIN popped
                      THEN DictSet(popped, "type", ObjStr("object"))
                      ELSE popped
             needs == typed["type"] = ObjStr("object")
                         /\ "properties" \notin DOMAIN typed
             grown == IF needs THEN Append(c.heap, << >>) ELSE c.heap
             out == IF needs
                    THEN DictSet(typed, "properties", ObjDict(Len(c.heap) + 1))
                    ELSE typed
         IN  [heap |-> [grown EXCEPT ![a] = out], value |-> ObjDict(a)]

\* a normalizer that leaves the $schema key in place
Mutant_normalize_keeps_dialect(h, s) ==
    IF s.kind # "dict"
    THEN DefaultSchema(h)
    ELSE LET c == deepcopy(h, s.ref)
             a == c.value.ref
             popped == c.heap[a]
             typed == IF "type" \notin DOMAIN popped
                      THEN DictSet(popped, "type", ObjStr("object"))
                      ELSE popped
             needs == typed["type"] = ObjStr("object")
                         /\ "properties" \notin DOMAIN typed
             grown == IF needs THEN Append(c.heap, << >>) ELSE c.heap
             out == IF needs
                    THEN DictSet(typed, "properties", ObjDict(Len(c.heap) + 1))
                    ELSE typed
         IN  [heap |-> [grown EXCEPT ![a] = out], value |-> ObjDict(a)]

\* _normalize_schema(s), on the heap h: the heap after the call and the value returned
_normalize_schema(h, s) ==
    IF s.kind # "dict"
    THEN DefaultSchema(h)
    ELSE LET c == deepcopy(h, s.ref)
             a == c.value.ref
             popped == DictPop(c.heap[a], "$schema")
             typed == IF "type" \notin DOMAIN popped
                      THEN DictSet(popped, "type", ObjStr("object"))
                      ELSE popped
             needs == typed["type"] = ObjStr("object")
                         /\ "properties" \notin DOMAIN typed
             grown == IF needs THEN Append(c.heap, << >>) ELSE c.heap
             out == IF needs
                    THEN DictSet(typed, "properties", ObjDict(Len(c.heap) + 1))
                    ELSE typed
         IN  [heap |-> [grown EXCEPT ![a] = out], value |-> ObjDict(a)]

\* the schema dicts the server's descriptors hold before bridging:
\*   1  {}
\*   2  {"$schema": ..., "type": "object", "properties": <3>, "required": ["q"]}
\*   3  {"q": <4>}
\*   4  {"type": "string"}
\*   5  {"properties": <3>}
\*   6  {"type": "object"}
\*   7  {"$schema": ..., "type": "string"}
\*   8  {"type": "object", "properties": None}
InitialHeap ==
    << << >>,
       ("$schema" :> ObjStr("http://json-schema.org/draft-07/schema#"))
          @@ ("type" :> ObjStr("object"))
          @@ ("properties" :> ObjDict(3))
          @@ ("required" :> ObjList("[\"q\"]")),
       ("q" :> ObjDict(4)),
       ("type" :> ObjStr("string")),
       ("properties" :> ObjDict(3)),
       ("type" :> ObjStr("object")),
       ("$schema" :> ObjStr("http://json-schema.org/draft-07/schema#"))
          @@ ("type" :> ObjStr("string")),
       ("type" :> ObjStr("object")) @@ ("properties" :> ObjNone) >>

\* the addresses of the schemas among them (3 and 4 are nested dicts)
SchemaAddresses == { a \in 1..Len(InitialHeap) : a \notin {3, 4} }

\* the values a descriptor may hold as its input schema
InputSchemas ==
    { ObjNone, ObjStr(""), ObjStr("object"), ObjInt("0"), ObjInt("5"),
      ObjList("[]"), ObjList("[1]") }
    \cup { ObjDict(a) : a \in SchemaAddresses }

\* the tool names the remote server may report
ToolNames ==
    { "resolve-library-id", "get-library-docs", "Get Docs", " search ", "9lives",
      "__", "get_docs",
      "a_tool_name_with_an_underscore_as_its_sixty_fourth_character_ab_and_a_tail",
      "a_name_that_is_much_longer_than_the_sixty_four_characters_a_function_name_may_have" }

\* the server labels a caller may pass
ServerLabels == { SERVER_LABEL, "", "my-server", "7zip" }

\* a descriptor that carries a name and nothing else
Descriptor(n) ==
    [name |-> n, toolName |-> "None", description |-> "None", title |-> "None",
     input_schema |-> ObjAbsent, inputSchema |-> ObjAbsent]

\* the descriptors list_tools may return, told apart by what they are called: name
\* and description (snake case) or toolName and title (camel case)
Descriptors ==
    { Descriptor(n) : n \in ToolNames \cup {"None", ""} }
    \cup { [Descriptor("None") EXCEPT !.toolName = "resolveLibraryId"] }
    \cup { [Descriptor(" search ") EXCEPT !.description = "Searches the docs"],
            [Descriptor(" search ") EXCEPT !.title = "Search"],
            [Descriptor(" search ") EXCEPT !.description = "", !.title = ""] }

DescriptorBatches == UNION { [1..k -> Descriptors] : k \in 0..MaxTools }

\* the descriptors list_tools may return, told apart by their schema: input_schema
\* (snake case) or inputSchema (camel case), or no name at all
SchemaDescriptors ==
    { [Descriptor("get-library-docs") EXCEPT !.input_schema = v] :
         v \in InputSchemas \cup {ObjAbsent} }
    \cup { [Descriptor("get-library-docs") EXCEPT !.inputSchema = ObjDict(2)],
            [Descriptor("get-library-docs") EXCEPT !.input_schema = ObjNone,
                                                   !.inputSchema = ObjList("[1]")],
            [Descriptor("None") EXCEPT !.input_schema = ObjDict(2)] }

SchemaBatches == UNION { [1..k -> SchemaDescriptors] : k \in 0..MaxTools }

\* ------------------------------------------------------------------ prompts
FirstInput ==
    << [role |-> "system", content |-> "AGENT_SYSTEM_PROMPT"],
       [role |-> "user", content |-> "task"] >>

NudgeInput == << [role |-> "user", content |-> "Declined. Try another approach."] >>

SummaryInput ==
    << [role |-> "system", content |-> "SUMMARY_SYSTEM_PROMPT"],
       [role |-> "user", content |-> "Summarize"] >>

StepLimitText == "Stopped: step limit reached."

\* ------------------------------------------------------------------ reverse index
\* context7_reverse_index.json as written by the bridge: exposed name -> mcp_name,
\* in the file's key order
REVERSE_INDEX_keys == << "context7__resolve_library_id", "context7__get_library_docs" >>

REVERSE_INDEX ==
    [k \in {REVERSE_INDEX_keys[i] : i \in 1..Len(REVERSE_INDEX_keys)} |->
        IF k = "context7__resolve_library_id"
        THEN [server_label |-> "context7", mcp_name |-> "resolve-library-id"]
        ELSE [server_label |-> "context7", mcp_name |-> "get-library-docs"]]

\* REVERSE_INDEX.get(fn_name) is truthy
HasMapping(fn_name) == fn_name \in DOMAIN REVERSE_INDEX

\* ------------------------------------------------------------------ arguments
ArgsCommand == "{\"command\": \"ls\"}"
ArgsEmptyObject == "{}"
ArgsNotJson == "{\"command\": "

EmptyDict == [k \in {} |-> ""]

\* json.loads on the raw argument strings the service sends:
\* ok = FALSE stands for json.JSONDecodeError
json_loads(raw) ==
    IF raw = ArgsCommand THEN [ok |-> TRUE, value |-> [command |-> "ls"]]
    ELSE IF raw = ArgsEmptyObject THEN [ok |-> TRUE, value |-> EmptyDict]
    ELSE [ok |-> FALSE, value |-> EmptyDict]

\* d.get(key, default)
DictGet(d, key, default) == IF key \in DOMAIN d THEN d[key] ELSE default

\* ------------------------------------------------------------------ model responses
\* The shapes of output item the inference service returns. The item at position i
\* of a response carries the ids "call_<i>" (call_id) and "fc_<i>" (id).
ItemKinds ==
    { "text",          \* a plain-text message
      "bash_cmd",      \* function_call bash, arguments {"command": "ls"}
      "bash_badjson",  \* function_call bash, arguments that are not JSON
      "bash_prefixed", \* function_call of a name that begins with "bash"
      "mcp_known",     \* function_call of a bridged tool present in REVERSE_INDEX
      "mcp_unknown",   \* function_call of a name absent from REVERSE_INDEX
      "fc_idonly",     \* function_call with no call_id but an id
      "fc_noid",       \* function_call with neither call_id nor id
      "fc_noname" }    \* function_call whose name is None

UnknownName == "context7__get_docs"

\* a name that begins with "bash" and is not "bash"
PrefixedName == "bash_history"

Item(kind, i) ==
    [ type      |-> IF kind = "text" THEN "message" ELSE "function_call",
      call_id   |-> IF kind \in {"text", "fc_idonly", "fc_noid"}
                    THEN None ELSE "call_" \o ToString(i),
      id        |-> IF kind = "text" THEN "msg_" \o ToString(i)
                    ELSE IF kind = "fc_noid" THEN None
                    ELSE "fc_" \o ToString(i),
      name      |-> IF kind \in {"text", "fc_noname"} THEN None
                    ELSE IF kind = "mcp_known" THEN REVERSE_INDEX_keys[1]
                    ELSE IF kind = "mcp_unknown" THEN UnknownName
                    ELSE IF kind = "bash_prefixed" THEN PrefixedName
                    ELSE "bash",
      arguments |-> IF kind = "text" THEN None
                    ELSE IF kind = "bash_badjson" THEN ArgsNotJson
                    ELSE IF kind \in {"mcp_known", "mcp_unknown"} THEN ArgsEmptyObject
                    ELSE ArgsCommand ]

KindSeqs == UNION { [1..n -> ItemKinds] : n \in 0..MaxItems }

\* resp.output_text: the text of the message items of the response
OutputTextOf(kinds) ==
    IF \E i \in DOMAIN kinds : kinds[i] = "text" THEN " Done. " ELSE ""

\* responses to a request that exposes the tools
ToolResponses(rid) ==
    { [ id          |-> rid,
        output      |-> [i \in 1..Len(kinds) |-> Item(kinds[i], i)],
        output_text |-> OutputTextOf(kinds) ] : kinds \in KindSeqs }

\* responses to a request with tools=[] and tool_choice="none": text only,
\* or no text at all
SummaryResponses(rid) ==
    { [ id |-> rid, output |-> << >>, output_text |-> t ] :
        t \in { None, "", " Summary. " } }

NoResp == [ id |-> NoHandle, output |-> << >>, output_text |-> None ]

IsFunctionCall(it) == it.type = "function_call"

FunctionCallItems(r) == SelectSeq(r.output, IsFunctionCall)

\* one entry of the list _extract_function_calls builds
CallOf(it) ==
    [ id        |-> IF Truthy(it.call_id) THEN it.call_id ELSE it.id,
      name      |-> it.name,
      arguments |-> IF Truthy(it.arguments) THEN it.arguments ELSE "" ]

WellFormed(c) == Truthy(c.id) /\ c.name # None

\* a variant that lists the requests last to first
Mutant_extract_reversed(r) ==
    LET fcs == FunctionCallItems(r)
        all == [i \in 1..Len(fcs) |-> CallOf(fcs[i])]
        kept == SelectSeq(all, WellFormed)
    IN  [i \in 1..Len(kept) |-> kept[Len(kept) + 1 - i]]

\* DocsAgent._extract_function_calls, BashAndMcpAgent._extract_function_calls
_extract_function_calls(r) ==
    LET fcs == FunctionCallItems(r)
        all == [i \in 1..Len(fcs) |-> CallOf(fcs[i])]
    IN  SelectSeq(all, WellFormed)

\* a variant that takes the last function_call item
Mutant_extract_single_last(r) ==
    LET fcs == FunctionCallItems(r) IN
    IF Len(fcs) = 0 THEN [raises |-> None, proposal |-> << >>]
    ELSE LET fc == fcs[Len(fcs)]
             parsed == json_loads(fc.arguments)
         IN  IF ~parsed.ok THEN [raises |-> "JSONDecodeError", proposal |-> << >>]
             ELSE IF ~Truthy(fc.call_id) THEN [raises |-> "ValueError", proposal |-> << >>]
             ELSE IF "command" \notin DOMAIN parsed.value
                  THEN [raises |-> "KeyError", proposal |-> << >>]
             ELSE [ raises   |-> None,
                    proposal |-> << [ id        |-> fc.call_id,
                                      name      |-> fc.name,
                                      arguments |-> fc.arguments ] >> ]

\* BashAgent._extract_single_function_call: the first function_call item only.
\* raises = None: returned normally, with proposal = None for "no function call".
_extract_single_function_call(r) ==
    LET fcs == FunctionCallItems(r) IN
    IF Len(fcs) = 0 THEN [raises |-> None, proposal |-> << >>]
    ELSE LET fc == fcs[1]
             parsed == json_loads(fc.arguments)
         IN  IF ~parsed.ok THEN [raises |-> "JSONDecodeError", proposal |-> << >>]
             ELSE IF ~Truthy(fc.call_id) THEN [raises |-> "ValueError", proposal |-> << >>]
             ELSE IF "command" \notin DOMAIN parsed.value
                  THEN [raises |-> "KeyError", proposal |-> << >>]
             ELSE [ raises   |-> None,
                    proposal |-> << [ id        |-> fc.call_id,
                                      name      |-> fc.name,
                                      arguments |-> fc.arguments ] >> ]

\* ------------------------------------------------------------------ tools
\* a Python value with its type: tool_output_text is a str in every branch
PyStr(text) == [ type |-> "str", value |-> text ]

\* utils.run_bash: subprocess.run either completes or raises TimeoutExpired
CommandResults(command) ==
    { [command |-> command, returncode |-> 0, stdout |-> "a.txt", stderr |-> ""],
      [command |-> command, returncode |-> 1, stdout |-> "", stderr |-> "fail"] }

\* a variant that hands over the dict without serializing it
Mutant_json_dumps_asdict(cr) == [ type |-> "dict", value |-> cr ]

\* json.dumps(dataclasses.asdict(result))
json_dumps(cr) ==
    PyStr("{\"command\": \"" \o cr.command \o "\", \"returncode\": "
          \o ToString(cr.returncode) \o ", \"stdout\": \"" \o cr.stdout
          \o "\", \"stderr\": \"" \o cr.stderr \o "\"}")

\* Context7Dispatcher.call returns the flattened text ("" when the result has no
\* content) or raises what the session, the handshake or the call raised
DispatcherTexts == { PyStr(""), PyStr("docs") }

\* ------------------------------------------------------------------ tool results
\* an object json.dumps cannot serialize, kept as its str()
ObjOpaque(text) == Obj("object", text, 0)

\* the dicts the content parts of a result hold:  1  {}   2  {"a": 1}
DataHeap == << << >>, ("a" :> ObjInt("1")) >>

\* a content part of a remote result: its text, json and data attributes and its
\* str()
Part(text, json, data, repr) ==
    [text |-> text, json |-> json, data |-> data, repr |-> repr]

ContentParts ==
    { Part(ObjStr("docs"), ObjAbsent, ObjAbsent, "TextContent(text='docs')"),
      Part(ObjStr(""), ObjAbsent, ObjAbsent, "TextContent(text='')"),
      Part(ObjStr("docs"), ObjDict(2), ObjAbsent, "Part(text='docs', json={'a': 1})"),
      Part(ObjNone, ObjDict(2), ObjAbsent, "Part(json={'a': 1})"),
      Part(ObjAbsent, ObjInt("0"), ObjAbsent, "Part(json=0)"),
      Part(ObjAbsent, ObjDict(1), ObjNone, "Part(json={})"),
      Part(ObjAbsent, ObjStr(""), ObjAbsent, "Part(json='')"),
      Part(ObjAbsent, ObjInt("0"), ObjList("[]"), "Part(json=0, data=[])"),
      Part(ObjAbsent, ObjAbsent, ObjStr("say \"hi\""), "Part(data='say \"hi\"')"),
      Part(ObjAbsent, ObjOpaque("<bound method>"), ObjAbsent, "ImageContent()"),
      Part(ObjAbsent, ObjAbsent, ObjAbsent, "Opaque()") }

\* a result of session.call_tool: its content attribute is missing, None or a list
ToolResult(kind, parts) == [kind |-> kind, parts |-> parts]

NoToolResult == ToolResult("absent", << >>)

ToolResults ==
    { ToolResult("absent", << >>), ToolResult("none", << >>) }
    \cup { ToolResult("list", parts) :
              parts \in UNION { [1..k -> ContentParts] : k \in 0..MaxParts } }

\* the text of a JSON string: quotes and backslashes are escaped; with
\* ensure_ascii=False every other character is kept as it is
RECURSIVE JsonEscape(_)
JsonEscape(text) ==
    IF text = "" THEN ""
    ELSE LET c == SubSeq(text, 1, 1)
         IN  (IF c = "\"" THEN "\\\"" ELSE IF c = "\\" THEN "\\\\" ELSE c)
                \o JsonEscape(Tail(text))

JsonString(text) == "\"" \o JsonEscape(text) \o "\""

\* json.dumps of None, a string, a number or an empty list
JsonScalar(v) ==
    CASE v.kind = "none" -> "null"
      [] v.kind = "str" -> JsonString(v.atom)
      [] v.kind = "int" -> v.atom
      [] v.kind = "list" -> v.atom

\* the keys of a dict, one after the other
RECURSIVE KeySeq(_)
KeySeq(keys) ==
    IF keys = {} THEN << >>
    ELSE LET k == CHOOSE x \in keys : TRUE IN << k >> \o KeySeq(keys \ {k})

\* json.dumps(obj, ensure_ascii=False, indent=2); the dicts hold scalars
JsonDumps(h, v) ==
    IF v.kind # "dict" THEN JsonScalar(v)
    ELSE IF DOMAIN h[v.ref] = {} THEN "{}"
    ELSE LET keys == KeySeq(DOMAIN h[v.ref])
             items == [ i \in 1..Len(keys) |->
                          "  " \o JsonString(keys[i]) \o ": "
                               \o JsonScalar(h[v.ref][keys[i]]) ]
         IN  "{\n" \o Join(items, ",\n") \o "\n}"

\* json.dumps raises TypeError
Serializable(v) == v.kind # "object"

\* the fragment the loop body of _flatten_mcp_tool_result appends for the part c
Fragment(c) ==
    LET text == Getattr(c.text, ObjNone)
        json == Getattr(c.json, ObjNone)
        data == Getattr(c.data, ObjNone)
        obj == IF IsTruthy(DataHeap, json) THEN json ELSE data
    IN  IF text.kind # "none" THEN text.atom
        ELSE IF obj.kind # "none"
             THEN IF Serializable(obj) THEN JsonDumps(DataHeap, obj) ELSE obj.atom
        ELSE c.repr

\* getattr(result, "content", []) or []
ContentOf(result) == IF result.kind = "list" THEN result.parts ELSE << >>

\* a flattening that leaves out the empty fragments
Mutant_flatten_skips_empty(result) ==
    LET content == ContentOf(result)
        parts == [ i \in 1..Len(content) |-> Fragment(content[i]) ]
    IN  Join(SelectSeq(parts, LAMBDA f : f # ""), "\n")

\* Context7Dispatcher._flatten_mcp_tool_result: no fragment is None, so that the
\* join keeps every one of them
_flatten_mcp_tool_result(result) ==
    LET content == ContentOf(result)
        parts == [ i \in 1..Len(content) |-> Fragment(content[i]) ]
    IN  Join(parts, "\n")

\* the tools of the remote server and the arguments the loop passes
RemoteCalls ==
    { [name |-> n, arguments |-> a] :
         n \in {"resolve-library-id", "get-library-docs"},
         a \in {EmptyDict, [libraryName |-> "react"]} }

CallBatches == UNION { [1..k -> RemoteCalls] : k \in 1..MaxCalls }

\* a variant that names the tool without listing the known names
Mutant_UnknownToolText_no_keys(fn_name) == PyStr("Unknown tool: " \o fn_name)

\* the observation for a name with no reverse-index entry
UnknownToolText(fn_name) ==
    PyStr("Unknown tool: " \o fn_name \o ". Available: "
          \o Join(REVERSE_INDEX_keys, ", "))

FunctionCallOutput(call_id, text) ==
    [ type |-> "function_call_output", call_id |-> call_id, output |-> text ]

\* ------------------------------------------------------------------ state
VARIABLES
    agent,         \* which agent class the instance is
    max_steps,     \* self.max_steps
    confirm,       \* self.confirm (DocsAgent has no confirmation gate)
    response_id,   \* self.response_id
    step_count,    \* self.step_count
    tool_calls,    \* self.tool_calls
    pc,            \* position of run(): "idle" (not running), "loop", "calls",
                   \* "summary", or "send_*", "await_*" while it is blocked in
                   \* client.responses.create
    step,          \* the for loop's variable
    resp,          \* run()'s local resp: the latest response
    calls,         \* the requests extracted from resp
    idx,           \* position in calls of the request handled next
    outputs,       \* the function_call_output items collected in this turn
    result,        \* how the last run() ended: returned value or raised exception
    inflight,      \* the request client.responses.create is blocked on
    issued,        \* service side: number of response ids issued so far
    runLimit,      \* number of run() calls the caller makes on the instance
    runs,          \* number of run() calls started on the instance
    nreq,          \* requests sent to the service in the current run
    used,          \* continuation handles the service has received from the instance
    summaries,     \* requests sent with tools disabled in the current run
    rounds,        \* turns of the current run whose requests were all executed
    tool,          \* what the latest step invoked: "bash", the mcp_name handed to the
                   \* dispatcher, or "none"
    allRequested,  \* every response of the current run so far held a tool-call request
    declines,      \* confirmation prompts answered "n" in the current run
    declinedIn,    \* ids of the responses a request of which was declined in the run
    approved,      \* position in calls of the request the human last let through
    nudged,        \* resp is the response to the corrective message of a decline
    summary,       \* run()'s local summary: output_text of the summary response
    mcp_tools,     \* bridge: the descriptors passed to bridge_mcp_tools_to_function_tools
    server_label,  \* bridge: its server_label argument
    t_idx,         \* bridge: number of descriptors the for loop has taken
    tools,         \* bridge: the list of function tools built so far
    reverse_index, \* bridge: function name -> server_label, mcp_name
    heap,          \* bridge: the dicts allocated so far (schemas and their copies)
    d_calls,       \* dispatcher: the calls the loop makes, in the order of the requests
    d_idx,         \* dispatcher: how many of them were started
    d_pc,          \* dispatcher: where call() is
    d_exc,         \* dispatcher: an exception is propagating
    d_stdio,       \* dispatcher: server processes running
    d_open,        \* dispatcher: client sessions open
    d_events,      \* dispatcher: what the current call did to its session
    d_log,         \* dispatcher: the calls the server received
    d_result,      \* dispatcher: result of session.call_tool
    d_out,         \* dispatcher: what call() returned
    c_task,               \* BashToolCaller: self.task
    c_first_response_id,  \* BashToolCaller: self._first_response_id
    c_last_tool_call_id,  \* BashToolCaller: self._last_tool_call_id
    c_issued,             \* BashToolCaller: responses the service has created for it
    c_stored,             \* BashToolCaller: response id -> call_ids of its function calls
    c_nreq,               \* BashToolCaller: requests sent to the service
    c_followup,           \* BashToolCaller: the last request summarize_result sent
    c_op,                 \* BashToolCaller: the method called last
    c_outcome,            \* BashToolCaller: how that call ended
    c_torn,               \* BashToolCaller: a propose_command raised between its two stores
    c_ops                 \* BashToolCaller: number of method calls made

bridge == << mcp_tools, server_label, t_idx, tools, reverse_index, heap >>

dispatch ==
    << d_calls, d_idx, d_pc, d_exc, d_stdio, d_open, d_events, d_log, d_result, d_out >>

caller ==
    << c_task, c_first_response_id, c_last_tool_call_id, c_issued, c_stored, c_nreq,
       c_followup, c_op, c_outcome, c_torn, c_ops >>

\* what is fixed while run() executes: the constructor's arguments, the number of
\* runs the caller makes, and the state of the bridge, of the dispatcher and of the
\* single-shot caller, which are followed on their own
config == << agent, max_steps, confirm, runLimit, bridge, dispatch, caller >>
counters == << step_count, tool_calls >>
locals == << step, resp, calls, idx, outputs, approved >>
service == << response_id, issued >>
history == << nreq, used, summaries, rounds, allRequested, declines, declinedIn >>
loop ==
    << counters, locals, service, history, inflight, tool, pc, result, runs, nudged,
       summary >>
vars == << config, loop >>

NoReq ==
    [ previous_response_id |-> NoHandle, store |-> FALSE, input |-> << >>,
      tools |-> FALSE ]

NoResult == [ kind |-> "none", value |-> "", at |-> "" ]
Returned(kind, text) == [ kind |-> kind, value |-> text, at |-> "" ]
Raised(exc, at) == [ kind |-> "error", value |-> exc, at |-> at ]

\* __init__ of the three agents
Constructed ==
    /\ agent \in Agents
    /\ max_steps \in 0..MaxSteps
    /\ confirm \in BOOLEAN
    /\ agent = "DocsAgent" => confirm = FALSE
    /\ response_id = NoHandle
    /\ step_count = 0
    /\ tool_calls = 0
    /\ pc = "idle"
    /\ step = 0
    /\ resp = NoResp
    /\ calls = << >>
    /\ idx = 0
    /\ outputs = << >>
    /\ result = NoResult
    /\ inflight = NoReq
    /\ issued = 0
    /\ runs = 0
    /\ nreq = 0
    /\ used = {}
    /\ summaries = 0
    /\ rounds = 0
    /\ tool = "none"
    /\ allRequested = TRUE
    /\ declines = 0
    /\ declinedIn = {}
    /\ approved = 0
    /\ nudged = FALSE
    /\ summary = None

\* the bridge is not running
BridgeIdle ==
    /\ mcp_tools = << >>
    /\ server_label = SERVER_LABEL
    /\ t_idx = 0
    /\ tools = << >>
    /\ reverse_index = << >>
    /\ heap = << >>

DispatchIdle ==
    /\ d_calls = << >>
    /\ d_idx = 0
    /\ d_pc = "idle"
    /\ d_exc = FALSE
    /\ d_stdio = 0
    /\ d_open = 0
    /\ d_events = << >>
    /\ d_log = << >>
    /\ d_result = NoToolResult
    /\ d_out = None

\* the request summarize_result sends: nothing was sent yet
NoFollowup ==
    [ sent |-> FALSE, previous_response_id |-> NoHandle, call_id |-> None,
      output |-> PyStr(""), tools |-> FALSE, tool_choice |-> "none" ]

\* BashToolCaller.__init__
CallerConstructed ==
    /\ c_task = None
    /\ c_first_response_id = NoHandle
    /\ c_last_tool_call_id = None
    /\ c_issued = 0
    /\ c_stored = << >>
    /\ c_nreq = 0
    /\ c_followup = NoFollowup
    /\ c_op = "none"
    /\ c_outcome = "none"
    /\ c_torn = FALSE
    /\ c_ops = 0

\* an agent on which run() is called once
Init == Constructed /\ BridgeIdle /\ DispatchIdle /\ CallerConstructed /\ runLimit = 1

\* an agent on which run() is called again after it returned or raised
InitRerun ==
    Constructed /\ BridgeIdle /\ DispatchIdle /\ CallerConstructed /\ runLimit = MaxRuns

\* a BashToolCaller is constructed; no agent runs
InitCaller ==
    /\ Constructed
    /\ agent = "BashAgent"
    /\ confirm = FALSE
    /\ max_steps = 0
    /\ runLimit = 0
    /\ BridgeIdle
    /\ DispatchIdle
    /\ CallerConstructed

\* the loop of a DocsAgent hands the calls of a turn to DISPATCHER.call one by one
InitDispatch ==
    /\ Constructed
    /\ agent = "DocsAgent"
    /\ max_steps = 0
    /\ runLimit = 0
    /\ BridgeIdle
    /\ d_calls \in CallBatches
    /\ d_idx = 0
    /\ d_pc = "idle"
    /\ d_exc = FALSE
    /\ d_stdio = 0
    /\ d_open = 0
    /\ d_events = << >>
    /\ d_log = << >>
    /\ d_result = NoToolResult
    /\ d_out = None
    /\ CallerConstructed

\* bridge_mcp_tools_to_function_tools is called with a batch and a label; no agent
\* runs
InitBridge ==
    /\ Constructed
    /\ agent = "DocsAgent"
    /\ max_steps = 0
    /\ runLimit = 0
    /\ mcp_tools \in DescriptorBatches
    /\ server_label \in ServerLabels
    /\ t_idx = 0
    /\ tools = << >>
    /\ reverse_index = << >>
    /\ heap = InitialHeap
    /\ DispatchIdle
    /\ CallerConstructed

\* bridge_mcp_tools_to_function_tools is entered with descriptors that differ in
\* their schemas, under the default label
InitSchema ==
    /\ Constructed
    /\ agent = "DocsAgent"
    /\ max_steps = 0
    /\ runLimit = 0
    /\ mcp_tools \in SchemaBatches
    /\ server_label = SERVER_LABEL
    /\ t_idx = 0
    /\ tools = << >>
    /\ reverse_index = << >>
    /\ heap = InitialHeap
    /\ DispatchIdle
    /\ CallerConstructed

\* ------------------------------------------------------------------ the API helper
\* kwargs["previous_response_id"] = self.response_id, when self.response_id is set
PreviousResponseId == IF response_id # NoHandle THEN response_id ELSE NoHandle

\* self.response_id = resp.id
StoredResponseId(r) == r.id

\* the kwargs of client.responses.create
Request(input_items, expose_tools) ==
    [ previous_response_id |-> PreviousResponseId,
      store                |-> (response_id = NoHandle),
      input                |-> input_items,
      tools                |-> expose_tools ]

\* _send_to_model / _first_or_next up to client.responses.create(**kwargs)
Send(input_items, expose_tools) ==
    /\ inflight' = Request(input_items, expose_tools)
    /\ nreq' = nreq + 1
    /\ summaries' = summaries + (IF expose_tools THEN 0 ELSE 1)

\* the handles supplied so far in the run, once the request on the wire arrives
UsedAfter ==
    used \cup (IF inflight.previous_response_id = NoHandle
               THEN {} ELSE {inflight.previous_response_id})

\* run() is left, by return or by an exception: its locals are gone
Exit(res) ==
    /\ result' = res
    /\ pc' = "idle"
    /\ step' = 0
    /\ resp' = NoResp
    /\ calls' = << >>
    /\ idx' = 0
    /\ outputs' = << >>
    /\ approved' = 0
    /\ inflight' = NoReq
    /\ tool' = "none"
    /\ nudged' = FALSE

\* run() is blocked in client.responses.create: the request is on the wire
Sending == { "send_first", "send_outputs", "send_nudge", "send_summary" }

\* run() is blocked in client.responses.create: the service has the request
Awaiting == { "await_first", "await_outputs", "await_nudge", "await_summary" }

AwaitOf(p) ==
    IF p = "send_first" THEN "await_first"
    ELSE IF p = "send_outputs" THEN "await_outputs"
    ELSE IF p = "send_nudge" THEN "await_nudge"
    ELSE "await_summary"

\* ------------------------------------------------------------------ run()
\* args_obj: json.loads(c["arguments"]), {} when it raises
ArgsObj(c) ==
    LET parsed == json_loads(c.arguments)
    IN  IF parsed.ok THEN parsed.value ELSE EmptyDict

\* a variant that sends every name beginning with "bash" to the command executor
Mutant_Route_prefix(fn_name) ==
    IF agent = "BashAgent" THEN "bash"
    ELSE IF agent = "BashAndMcpAgent" /\ BeginsWith(fn_name, "bash") THEN "bash"
    ELSE IF HasMapping(fn_name) THEN "mcp"
    ELSE "unknown"

\* where a request is routed: BashAgent runs every proposal as a command,
\* BashAndMcpAgent tests fn_name == "bash" and then REVERSE_INDEX.get(fn_name),
\* DocsAgent only looks the name up
Route(fn_name) ==
    IF agent = "BashAgent" THEN "bash"
    ELSE IF agent = "BashAndMcpAgent" /\ fn_name = "bash" THEN "bash"
    ELSE IF HasMapping(fn_name) THEN "mcp"
    ELSE "unknown"

\* self.tool_calls += 1 comes before the confirmation prompt in BashAndMcpAgent and
\* after it in BashAgent
CountsDeclined == agent = "BashAndMcpAgent"

\* a variant that returns the attribute as it is
Mutant_SummaryText_raw(r) == r.output_text

\* the value run() returns from the summary response
SummaryText(r) == Strip(IF Truthy(r.output_text) THEN r.output_text ELSE "")

\* run(task) up to the first client.responses.create. Nothing of self is reset.
Run ==
    /\ pc = "idle"
    /\ runs < runLimit
    /\ runs' = runs + 1
    /\ result' = NoResult
    /\ inflight' = Request(FirstInput, TRUE)
    /\ nreq' = 1
    /\ summaries' = 0
    /\ rounds' = 0
    /\ allRequested' = TRUE
    /\ declines' = 0
    /\ declinedIn' = {}
    /\ summary' = None
    /\ pc' = "send_first"
    /\ UNCHANGED << config, counters, locals, service, used, tool, nudged >>

\* the request on the wire reaches the inference service; run() stays blocked in
\* client.responses.create. The locals calls, idx, outputs and resp are dead from
\* here on: run() assigns them again before it reads them.
Deliver ==
    /\ pc \in Sending
    /\ pc' = AwaitOf(pc)
    /\ used' = UsedAfter
    /\ inflight' = NoReq
    /\ resp' = NoResp
    /\ calls' = << >>
    /\ idx' = 0
    /\ outputs' = << >>
    /\ approved' = 0
    /\ nudged' = FALSE
    /\ UNCHANGED << config, counters, step, service, nreq, summaries, rounds,
                    allRequested, declines, declinedIn, tool, result, runs, summary >>

\* a variant in which the iteration of a declined request is taken again (a while
\* loop that counts executed steps only)
Mutant_Created_retries ==
    /\ pc \in Awaiting
    /\ \E r \in (IF pc = "await_summary" THEN SummaryResponses(issued + 1)
                 ELSE ToolResponses(issued + 1)) :
          /\ issued' = issued + 1
          /\ response_id' = StoredResponseId(r)
          /\ allRequested' = ( /\ allRequested
                               /\ pc # "await_summary"
                                    => Len(_extract_function_calls(r)) >= 1 )
          /\ IF pc = "await_summary"
             THEN /\ summary' = r.output_text
                  /\ Exit(Returned("summary", SummaryText(r)))
             ELSE /\ resp' = r
                  /\ step' = IF pc = "await_first" THEN 1
                             ELSE IF pc = "await_nudge" THEN step ELSE step + 1
                  /\ nudged' = (pc = "await_nudge")
                  /\ pc' = "loop"
                  /\ UNCHANGED << calls, idx, outputs, approved, inflight, tool, result,
                                  summary >>
    /\ UNCHANGED << config, counters, nreq, used, summaries, rounds, declines,
                    declinedIn, runs >>

\* client.responses.create returns r: self.response_id = resp.id, and run() goes on
\* with the for loop's next iteration, or returns the summary
Created ==
    /\ pc \in Awaiting
    /\ \E r \in (IF pc = "await_summary" THEN SummaryResponses(issued + 1)
                 ELSE ToolResponses(issued + 1)) :
          /\ issued' = issued + 1
          /\ response_id' = StoredResponseId(r)
          /\ allRequested' = ( /\ allRequested
                               /\ pc # "await_summary"
                                    => Len(_extract_function_calls(r)) >= 1 )
          /\ IF pc = "await_summary"
             THEN /\ summary' = r.output_text
                  /\ Exit(Returned("summary", SummaryText(r)))
             ELSE /\ resp' = r
                  /\ step' = IF pc = "await_first" THEN 1 ELSE step + 1
                  /\ nudged' = (pc = "await_nudge")
                  /\ pc' = "loop"
                  /\ UNCHANGED << calls, idx, outputs, approved, inflight, tool, result,
                                  summary >>
    /\ UNCHANGED << config, counters, nreq, used, summaries, rounds, declines,
                    declinedIn, runs >>

\* client.responses.create raises (the service is unreachable or its response is
\* malformed): nothing catches it, the exception leaves run()
CreateRaises ==
    /\ pc \in Awaiting
    /\ Exit(Raised("TransportError",
                   IF pc = "await_first" THEN "first"
                   ELSE IF pc = "await_summary" THEN "summary" ELSE "loop"))
    /\ UNCHANGED << config, counters, service, history, runs, summary >>

\* the for loop is exhausted: its else branch
StepLimitReached ==
    /\ pc = "loop"
    /\ step > max_steps
    /\ Exit(Returned("step_limit", StepLimitText))
    /\ UNCHANGED << config, counters, service, history, runs, summary >>

\* DocsAgent, BashAndMcpAgent: one iteration of the for loop up to the branch on calls
InspectTurn ==
    /\ pc = "loop"
    /\ agent # "BashAgent"
    /\ step <= max_steps
    /\ step_count' = step
    /\ calls' = _extract_function_calls(resp)
    /\ idx' = 1
    /\ outputs' = << >>
    /\ approved' = 0
    /\ pc' = IF Len(_extract_function_calls(resp)) > 0 THEN "calls" ELSE "summary"
    /\ UNCHANGED << config, tool_calls, step, resp, service, history, inflight, tool,
                    result, runs, nudged, summary >>

\* BashAgent: one iteration of the for loop up to the confirmation gate;
\* _extract_single_function_call may raise
BashAgentInspectTurn ==
    /\ pc = "loop"
    /\ agent = "BashAgent"
    /\ step <= max_steps
    /\ step_count' = step
    /\ LET e == _extract_single_function_call(resp) IN
          IF e.raises # None
          THEN Exit(Raised(e.raises, "loop"))
          ELSE /\ calls' = e.proposal
               /\ idx' = 1
               /\ outputs' = << >>
               /\ approved' = 0
               /\ pc' = IF Len(e.proposal) = 0 THEN "summary" ELSE "calls"
               /\ UNCHANGED << step, resp, inflight, tool, result, nudged >>
    /\ UNCHANGED << config, tool_calls, service, history, runs, summary >>

\* with confirmation on, the request is shown and the human answers anything but
\* "n". self.tool_calls is read after the loop only: its increment is taken with the
\* step that ends the iteration.
Approve ==
    /\ pc = "calls"
    /\ idx <= Len(calls)
    /\ confirm
    /\ approved < idx
    /\ approved' = idx
    /\ UNCHANGED << config, counters, step, resp, calls, idx, outputs, service, history,
                    inflight, tool, pc, result, runs, nudged, summary >>

\* a loop body that runs the tool without the confirmation prompt
Mutant_ProcessCall_unprompted ==
    /\ pc = "calls"
    /\ idx <= Len(calls)
    /\ tool_calls' = tool_calls + 1
    /\ LET c == calls[idx]
           command == DictGet(ArgsObj(c), "command", "")
       IN
       \/ /\ Route(c.name) = "bash"
          /\ \E cr \in CommandResults(command) :
                outputs' = Append(outputs, FunctionCallOutput(c.id, json_dumps(cr)))
          /\ idx' = idx + 1
          /\ tool' = "bash"
          /\ UNCHANGED << pc, result, step, resp, calls, approved, inflight, nudged >>
       \/ /\ Route(c.name) = "bash"
          /\ Exit(Raised("TimeoutExpired", "loop"))
       \/ /\ Route(c.name) = "mcp"
          /\ \E text \in DispatcherTexts :
                outputs' = Append(outputs, FunctionCallOutput(c.id, text))
          /\ idx' = idx + 1
          /\ tool' = REVERSE_INDEX[c.name].mcp_name
          /\ UNCHANGED << pc, result, step, resp, calls, approved, inflight, nudged >>
       \/ /\ Route(c.name) = "mcp"
          /\ Exit(Raised("McpError", "loop"))
       \/ /\ Route(c.name) = "unknown"
          /\ outputs' = Append(outputs, FunctionCallOutput(c.id, UnknownToolText(c.name)))
          /\ idx' = idx + 1
          /\ tool' = "none"
          /\ UNCHANGED << pc, result, step, resp, calls, approved, inflight, nudged >>
    /\ UNCHANGED << config, step_count, service, history, runs, summary >>

\* one request of the turn is executed (let through, when confirmation is on) and its
\* function_call_output is collected, or the tool raises and the exception leaves run()
ProcessCall ==
    /\ pc = "calls"
    /\ idx <= Len(calls)
    /\ confirm => approved = idx
    /\ tool_calls' = tool_calls + 1
    /\ LET c == calls[idx]
           command == DictGet(ArgsObj(c), "command", "")
       IN
       \/ /\ Route(c.name) = "bash"
          /\ \E cr \in CommandResults(command) :
                outputs' = Append(outputs, FunctionCallOutput(c.id, json_dumps(cr)))
          /\ idx' = idx + 1
          /\ tool' = "bash"
          /\ UNCHANGED << pc, result, step, resp, calls, approved, inflight, nudged >>
       \/ /\ Route(c.name) = "bash"
          /\ Exit(Raised("TimeoutExpired", "loop"))
       \/ /\ Route(c.name) = "mcp"
          /\ \E text \in DispatcherTexts :
                outputs' = Append(outputs, FunctionCallOutput(c.id, text))
          /\ idx' = idx + 1
          /\ tool' = REVERSE_INDEX[c.name].mcp_name
          /\ UNCHANGED << pc, result, step, resp, calls, approved, inflight, nudged >>
       \/ /\ Route(c.name) = "mcp"
          /\ Exit(Raised("McpError", "loop"))
       \/ /\ Route(c.name) = "unknown"
          /\ outputs' = Append(outputs, FunctionCallOutput(c.id, UnknownToolText(c.name)))
          /\ idx' = idx + 1
          /\ tool' = "none"
          /\ UNCHANGED << pc, result, step, resp, calls, approved, inflight, nudged >>
    /\ UNCHANGED << config, step_count, service, history, runs, summary >>

\* a variant in which a decline ends the run
Mutant_DeclineCall_cancels ==
    /\ pc = "calls"
    /\ idx <= Len(calls)
    /\ confirm
    /\ approved < idx
    /\ tool_calls' = IF CountsDeclined THEN tool_calls + 1 ELSE tool_calls
    /\ declines' = declines + 1
    /\ declinedIn' = declinedIn \cup {resp.id}
    /\ Exit(Returned("declined", ""))
    /\ UNCHANGED << config, step_count, service, nreq, used, summaries, rounds,
                    allRequested, runs, summary >>

\* a variant in which a decline skips the request and the turn goes on
Mutant_DeclineCall_skips ==
    /\ pc = "calls"
    /\ idx <= Len(calls)
    /\ confirm
    /\ approved < idx
    /\ tool_calls' = IF CountsDeclined THEN tool_calls + 1 ELSE tool_calls
    /\ declines' = declines + 1
    /\ declinedIn' = declinedIn \cup {resp.id}
    /\ idx' = idx + 1
    /\ approved' = idx
    /\ UNCHANGED << config, step_count, step, resp, calls, outputs, service, nreq, used,
                    summaries, rounds, allRequested, inflight, tool, pc, result, runs,
                    nudged, summary >>

\* the human answers "n" at the confirmation prompt: the nudge is sent in place of
\* the outputs collected so far
DeclineCall ==
    /\ pc = "calls"
    /\ idx <= Len(calls)
    /\ confirm
    /\ approved < idx
    /\ tool_calls' = IF CountsDeclined THEN tool_calls + 1 ELSE tool_calls
    /\ Send(NudgeInput, TRUE)
    /\ declines' = declines + 1
    /\ declinedIn' = declinedIn \cup {resp.id}
    /\ pc' = "send_nudge"
    /\ tool' = "none"
    /\ UNCHANGED << config, step_count, locals, service, used, rounds, allRequested,
                    result, runs, nudged, summary >>

\* every request of the turn was executed: the outputs are sent, tools still exposed
SendOutputs ==
    /\ pc = "calls"
    /\ idx > Len(calls)
    /\ rounds' = rounds + 1
    /\ Send(outputs, TRUE)
    /\ pc' = "send_outputs"
    /\ tool' = "none"
    /\ UNCHANGED << config, counters, locals, service, used, allRequested, declines,
                    declinedIn, result, runs, nudged, summary >>

\* a variant that returns after break without asking for the summary
Mutant_Summarize_skipped ==
    /\ pc = "summary"
    /\ Exit(Returned("summary", SummaryText(resp)))
    /\ UNCHANGED << config, counters, service, history, runs, summary >>

\* after break: the final request, tools disabled
Summarize ==
    /\ pc = "summary"
    /\ Send(SummaryInput, FALSE)
    /\ pc' = "send_summary"
    /\ UNCHANGED << config, counters, locals, service, used, rounds, allRequested,
                    declines, declinedIn, tool, result, runs, nudged, summary >>

Next ==
    \/ Run
    \/ Deliver
    \/ Created
    \/ CreateRaises
    \/ StepLimitReached
    \/ InspectTurn
    \/ BashAgentInspectTurn
    \/ Approve
    \/ ProcessCall
    \/ DeclineCall
    \/ SendOutputs
    \/ Summarize

\* ------------------------------------------------------------------ bridging
\* getattr(t, "name", None) or getattr(t, "toolName", None)
Mutant_DescriptorName_snake_only(t) == t.name

DescriptorName(t) == IF Truthy(t.name) THEN t.name ELSE t.toolName

\* getattr(t, "description", None) or getattr(t, "title", "") or ""
DescriptorDescription(t) ==
    IF Truthy(t.description) THEN t.description
    ELSE IF Truthy(t.title) THEN t.title
    ELSE ""

\* getattr(t, "input_schema", None) or getattr(t, "inputSchema", None) or {}
DescriptorSchema(h, t) ==
    LET s1 == Getattr(t.input_schema, ObjNone)
        s2 == Getattr(t.inputSchema, ObjNone)
    IN  IF IsTruthy(h, s1) THEN [heap |-> h, value |-> s1]
        ELSE IF IsTruthy(h, s2) THEN [heap |-> h, value |-> s2]
        ELSE [heap |-> Append(h, << >>), value |-> ObjDict(Len(h) + 1)]

\* a loop body that records the function name where the original name belongs
Mutant_BridgeTool_indexes_fn_name ==
    /\ t_idx < Len(mcp_tools)
    /\ t_idx' = t_idx + 1
    /\ LET t == mcp_tools[t_idx + 1]
           name == DescriptorName(t)
           desc == DescriptorDescription(t)
           schema == DescriptorSchema(heap, t)
           fn_name == _sanitize_function_name(name, server_label)
           parameters == _normalize_schema(schema.heap, schema.value)
       IN  IF ~Truthy(name)
           THEN UNCHANGED << tools, reverse_index, heap >>
           ELSE /\ tools' = Append(tools,
                                   [type |-> "function",
                                    name |-> fn_name,
                                    description |-> IF desc # "" THEN desc ELSE name,
                                    parameters |-> parameters.value])
                /\ heap' = parameters.heap
                /\ reverse_index' =
                      DictSet(reverse_index, fn_name,
                              [server_label |-> server_label, mcp_name |-> fn_name])
    /\ UNCHANGED << agent, max_steps, confirm, runLimit, mcp_tools, server_label,
                    dispatch, caller, loop >>

\* one iteration of the for loop of bridge_mcp_tools_to_function_tools
BridgeTool ==
    /\ t_idx < Len(mcp_tools)
    /\ t_idx' = t_idx + 1
    /\ LET t == mcp_tools[t_idx + 1]
           name == DescriptorName(t)
           desc == DescriptorDescription(t)
           schema == DescriptorSchema(heap, t)
           fn_name == _sanitize_function_name(name, server_label)
           parameters == _normalize_schema(schema.heap, schema.value)
       IN  IF ~Truthy(name)
           THEN UNCHANGED << tools, reverse_index, heap >>
           ELSE /\ tools' = Append(tools,
                                   [type |-> "function",
                                    name |-> fn_name,
                                    description |-> IF desc # "" THEN desc ELSE name,
                                    parameters |-> parameters.value])
                /\ heap' = parameters.heap
                /\ reverse_index' =
                      DictSet(reverse_index, fn_name,
                              [server_label |-> server_label, mcp_name |-> name])
    /\ UNCHANGED << agent, max_steps, confirm, runLimit, mcp_tools, server_label,
                    dispatch, caller, loop >>

NextBridge == BridgeTool

\* ------------------------------------------------------------------ the dispatcher
\* what no step of the dispatcher changes
outside == << agent, max_steps, confirm, runLimit, bridge, caller, loop >>

\* DISPATCHER.call(mcp_name, args_obj) in the loop over the calls of a turn:
\* asyncio.run(self._acall(...)) starts; an earlier call has returned
DispatcherCall ==
    /\ d_pc \in {"idle", "returned"}
    /\ d_idx < Len(d_calls)
    /\ d_idx' = d_idx + 1
    /\ d_pc' = "stdio_client"
    /\ d_events' = << >>
    /\ d_result' = NoToolResult
    /\ d_out' = None
    /\ UNCHANGED << d_calls, d_exc, d_stdio, d_open, d_log, outside >>

\* async with stdio.stdio_client(stdio_params): the server process starts, or npx
\* cannot be started and the exception leaves call()
OpenTransport ==
    /\ d_pc = "stdio_client"
    /\ \/ /\ d_stdio' = d_stdio + 1
          /\ d_pc' = "ClientSession"
          /\ UNCHANGED d_exc
       \/ /\ d_exc' = TRUE
          /\ d_pc' = "raised"
          /\ UNCHANGED d_stdio
    /\ UNCHANGED << d_calls, d_idx, d_open, d_events, d_log, d_result, d_out, outside >>

\* async with mcp.ClientSession(reader, writer) as session
OpenSession ==
    /\ d_pc = "ClientSession"
    /\ d_open' = d_open + 1
    /\ d_events' = Append(d_events, "open")
    /\ d_pc' = "initialize"
    /\ UNCHANGED << d_calls, d_idx, d_exc, d_stdio, d_log, d_result, d_out, outside >>

\* await session.initialize(): the handshake succeeds or raises
Initialize ==
    /\ d_pc = "initialize"
    /\ d_events' = Append(d_events, "initialize")
    /\ \/ d_pc' = "call_tool" /\ UNCHANGED d_exc
       \/ d_pc' = "exit_session" /\ d_exc' = TRUE
    /\ UNCHANGED << d_calls, d_idx, d_stdio, d_open, d_log, d_result, d_out, outside >>

\* result = await session.call_tool(mcp_tool_name, arguments or {}): the server
\* receives the call and answers, or the call raises before or after the server
\* received it
CallTool ==
    /\ d_pc = "call_tool"
    /\ d_events' = Append(d_events, "call_tool")
    /\ \/ /\ \E r \in ToolResults : d_result' = r
          /\ d_log' = Append(d_log, d_calls[d_idx])
          /\ d_pc' = "flatten"
          /\ UNCHANGED d_exc
       \/ /\ \E received \in BOOLEAN :
                d_log' = IF received THEN Append(d_log, d_calls[d_idx]) ELSE d_log
          /\ d_pc' = "exit_session"
          /\ d_exc' = TRUE
          /\ UNCHANGED d_result
    /\ UNCHANGED << d_calls, d_idx, d_stdio, d_open, d_out, outside >>

\* out = self._flatten_mcp_tool_result(result); return out or ""
Flatten ==
    /\ d_pc = "flatten"
    /\ LET out == _flatten_mcp_tool_result(d_result)
       IN  d_out' = IF out # "" THEN out ELSE ""
    /\ d_pc' = "exit_session"
    /\ UNCHANGED << d_calls, d_idx, d_exc, d_stdio, d_open, d_events, d_log, d_result,
                    outside >>

\* a session exit that leaves the session open
Mutant_CloseSession_leaks ==
    /\ d_pc = "exit_session"
    /\ d_events' = Append(d_events, "close")
    /\ d_pc' = "exit_stdio_client"
    /\ UNCHANGED << d_calls, d_idx, d_exc, d_stdio, d_open, d_log, d_result, d_out,
                    outside >>

\* the exit of async with mcp.ClientSession, on return and on exception alike
CloseSession ==
    /\ d_pc = "exit_session"
    /\ d_open' = d_open - 1
    /\ d_events' = Append(d_events, "close")
    /\ d_pc' = "exit_stdio_client"
    /\ UNCHANGED << d_calls, d_idx, d_exc, d_stdio, d_log, d_result, d_out, outside >>

\* the exit of async with stdio.stdio_client; asyncio.run then returns the text or
\* raises the exception into run(), which does not catch it
CloseTransport ==
    /\ d_pc = "exit_stdio_client"
    /\ d_stdio' = d_stdio - 1
    /\ d_pc' = IF d_exc THEN "raised" ELSE "returned"
    /\ UNCHANGED << d_calls, d_idx, d_exc, d_open, d_events, d_log, d_result, d_out,
                    outside >>

NextDispatch ==
    \/ DispatcherCall
    \/ OpenTransport
    \/ OpenSession
    \/ Initialize
    \/ CallTool
    \/ Flatten
    \/ CloseSession
    \/ CloseTransport

\* one run() on a fresh agent
Spec == Init /\ [][Next]_vars

\* run() under the assumption that every request, every tool and every prompt
\* returns: whenever the program has a step to take, it takes one
SpecReturns == Init /\ [][Next]_vars /\ WF_vars(Next)

\* one call of bridge_mcp_tools_to_function_tools
SpecBridge == InitBridge /\ [][NextBridge]_vars

\* one call of bridge_mcp_tools_to_function_tools, over the schemas
SpecSchema == InitSchema /\ [][NextBridge]_vars

\* ------------------------------------------------------------------ BashToolCaller
\* 03_responses_tool_mode_stateful.py. The outputs the service returns to the
\* forced-tool request, by the shapes of their items
CallerKindSeqs ==
    { << >>, << "text" >>, << "bash" >>, << "text", "bash" >>, << "bash", "bash" >>,
      << "bash_badjson" >>, << "bash_nocommand" >>, << "text", "bash_badjson" >> }

\* the item at position i of the response rid; call_ids are unique to the item
CallerItem(kind, rid, i) ==
    [ type      |-> IF kind = "text" THEN "message" ELSE "function_call",
      call_id   |-> IF kind = "text" THEN None
                    ELSE "call_" \o ToString(rid) \o "_" \o ToString(i),
      arguments |-> IF kind = "text" THEN None
                    ELSE IF kind = "bash_badjson" THEN ArgsNotJson
                    ELSE IF kind = "bash_nocommand" THEN ArgsEmptyObject
                    ELSE ArgsCommand ]

CallerResponses(rid) ==
    { [ id     |-> rid,
        output |-> [i \in 1..Len(kinds) |-> CallerItem(kinds[i], rid, i)] ] :
      kinds \in CallerKindSeqs }

\* the call_ids of the function_call items of a response, as the service stores them
CallIdsOf(r) == { r.output[i].call_id : i \in { j \in 1..Len(r.output) :
                                                  IsFunctionCall(r.output[j]) } }

\* the tasks a caller passes
CallerTasks == { " list the files " }

\* what no method of the caller changes
beyond == << agent, max_steps, confirm, runLimit, bridge, dispatch, loop >>

\* propose_command(task): the request is sent; create raises, or the response is
\* recorded, the first function_call item is looked for, its arguments are parsed,
\* its call_id is recorded and the command is read
propose_command ==
    /\ c_ops < MaxOps
    /\ c_ops' = c_ops + 1
    /\ c_op' = "propose_command"
    /\ \E task \in CallerTasks : c_task' = Strip(task)
    /\ c_nreq' = c_nreq + 1
    /\ \/ /\ c_outcome' = "TransportError"
          /\ UNCHANGED << c_first_response_id, c_last_tool_call_id, c_issued, c_stored,
                          c_torn >>
       \/ \E first \in CallerResponses(c_issued + 1) :
             LET fcs == FunctionCallItems(first)
                 parsed == json_loads(fcs[1].arguments)
             IN  /\ c_issued' = c_issued + 1
                 /\ c_stored' = DictSet(c_stored, first.id, CallIdsOf(first))
                 /\ c_first_response_id' = first.id
                 /\ IF Len(fcs) = 0
                    THEN /\ c_outcome' = "StopIteration"
                         /\ c_torn' = TRUE
                         /\ UNCHANGED c_last_tool_call_id
                    ELSE IF ~parsed.ok
                    THEN /\ c_outcome' = "JSONDecodeError"
                         /\ c_torn' = TRUE
                         /\ UNCHANGED c_last_tool_call_id
                    ELSE /\ c_last_tool_call_id' = fcs[1].call_id
                         /\ c_torn' = FALSE
                         /\ c_outcome' = IF "command" \in DOMAIN parsed.value
                                         THEN "CommandProposal"
                                         ELSE "KeyError"
    /\ UNCHANGED << c_followup, beyond >>

\* a summarize_result without the test of the two ids
Mutant_summarize_result_unguarded ==
    /\ c_ops < MaxOps
    /\ c_ops' = c_ops + 1
    /\ c_op' = "summarize_result"
    /\ \E cr \in CommandResults("ls") :
          c_followup' = [ sent                 |-> TRUE,
                          previous_response_id |-> c_first_response_id,
                          call_id              |-> c_last_tool_call_id,
                          output               |-> json_dumps(cr),
                          tools                |-> FALSE,
                          tool_choice          |-> "none" ]
    /\ c_nreq' = c_nreq + 1
    /\ \E o \in {"summary", "TransportError"} : c_outcome' = o
    /\ UNCHANGED << c_task, c_first_response_id, c_last_tool_call_id, c_issued,
                    c_stored, c_torn, beyond >>

\* summarize_result(result): RuntimeError when an id is missing; else the follow-up
\* request is sent with previous_response_id and the function_call_output, tools=[]
\* and tool_choice="none", and create returns or raises
summarize_result ==
    /\ c_ops < MaxOps
    /\ c_ops' = c_ops + 1
    /\ c_op' = "summarize_result"
    /\ IF c_first_response_id = NoHandle \/ ~Truthy(c_last_tool_call_id)
       THEN /\ c_outcome' = "RuntimeError"
            /\ UNCHANGED << c_followup, c_nreq >>
       ELSE /\ \E cr \in CommandResults("ls") :
                  c_followup' = [ sent                 |-> TRUE,
                                  previous_response_id |-> c_first_response_id,
                                  call_id              |-> c_last_tool_call_id,
                                  output               |-> json_dumps(cr),
                                  tools                |-> FALSE,
                                  tool_choice          |-> "none" ]
            /\ c_nreq' = c_nreq + 1
            /\ \E o \in {"summary", "TransportError"} : c_outcome' = o
    /\ UNCHANGED << c_task, c_first_response_id, c_last_tool_call_id, c_issued,
                    c_stored, c_torn, beyond >>

NextCaller == propose_command \/ summarize_result

\* the calls of one turn, handed to Context7Dispatcher.call
SpecDispatch == InitDispatch /\ [][NextDispatch]_vars

\* a BashToolCaller whose two methods are called in any order
SpecCaller == InitCaller /\ [][NextCaller]_vars

\* run() called again on the same agent
SpecRerun == InitRerun /\ [][Next]_vars

\* ------------------------------------------------------------------ claims
\* the tool-call requests of a response: its function_call items that carry an id
\* (call_id, or id in its absence) and a name
IsToolCallRequest(it) ==
    /\ it.type = "function_call"
    /\ Truthy(it.call_id) \/ Truthy(it.id)
    /\ it.name # None

ToolCallRequests(r) == SelectSeq(r.output, IsToolCallRequest)

RequestIds(r) ==
    { (IF Truthy(ToolCallRequests(r)[i].call_id)
       THEN ToolCallRequests(r)[i].call_id
       ELSE ToolCallRequests(r)[i].id) : i \in 1..Len(ToolCallRequests(r)) }

IsOutputItem(x) == "type" \in DOMAIN x /\ x.type = "function_call_output"

\* the request on the wire answers every tool-call request of the latest response
AnswersAll ==
    /\ Len(inflight.input) = Len(ToolCallRequests(resp))
    /\ \A i \in 1..Len(inflight.input) : IsOutputItem(inflight.input[i])
    /\ { inflight.input[i].call_id : i \in 1..Len(inflight.input) } = RequestIds(resp)

MultiCallAgent == agent \in { "BashAndMcpAgent", "DocsAgent" }

FollowUp == { "send_outputs", "send_nudge", "send_summary" }

\* C1 as stated: in BashAndMcpAgent.run and DocsAgent.run, the request that follows
\* a response with N >= 1 tool-call requests carries exactly N function_call_output
\* items with the call_ids of those requests, whether or not confirmation is enabled.
C1_AsStated ==
    (MultiCallAgent /\ pc \in FollowUp /\ Len(ToolCallRequests(resp)) >= 1)
        => AnswersAll

\* C1 outside a decline: the requests of a turn are left unanswered only by the
\* request that carries the corrective user message, sent with confirmation enabled.
C1_UnansweredOnlyAfterDecline ==
    (MultiCallAgent /\ pc \in FollowUp /\ Len(ToolCallRequests(resp)) >= 1)
        => IF pc = "send_nudge"
           THEN confirm /\ inflight.input = NudgeInput
           ELSE AnswersAll

\* C2 as stated: the stored handle is the id of the latest response, every request
\* after the first of a run supplies the id of the response before it, and no request
\* supplies a handle that an earlier request supplied.
C2_AsStated ==
    /\ response_id = issued
    /\ resp # NoResp => response_id = resp.id
    /\ pc \in FollowUp =>
          /\ inflight.previous_response_id = resp.id
          /\ inflight.previous_response_id # NoHandle
          /\ ~inflight.store
    /\ pc \in Sending => inflight.previous_response_id \notin used

\* C3 as stated: when the response to a tool-exposed request holds no tool-call
\* request, the loop goes on to the summary, never to the step-limit outcome.
C3_AsStated ==
    [][ (pc = "loop" /\ Len(FunctionCallItems(resp)) = 0) => pc' = "summary" ]_vars

\* C4 as stated: with confirmation disabled and max_steps = k >= 1, a run in which
\* every response held a tool-call request performs exactly k rounds, returns the
\* step-limit message and sends no summary request.
C4_AsStated ==
    ( /\ MultiCallAgent
      /\ pc = "idle"
      /\ runs >= 1
      /\ ~confirm
      /\ max_steps >= 1
      /\ allRequested
      /\ result.value # "TransportError" )
    => /\ result = Returned("step_limit", StepLimitText)
       /\ rounds = max_steps
       /\ summaries = 0

RunEnded == pc = "idle" /\ runs >= 1

\* C5: a run ends by returning the summary text, by returning the step-limit message
\* or by raising; the summary request is sent exactly in the runs that end neither
\* with the step-limit message nor with an exception raised before it.
C5_OneOutcome ==
    /\ ~RunEnded /\ runs >= 1 => result = NoResult
    /\ summaries <= 1
    /\ RunEnded =>
          /\ result.kind \in { "summary", "step_limit", "error" }
          /\ result.kind = "step_limit" => result.value = StepLimitText
          /\ summaries = 1 <=>
                ~( \/ result.kind = "step_limit"
                   \/ result.kind = "error" /\ result.at # "summary" )

\* C5 witness: a run that returned the text of its summary request
C5_Witness ==
    /\ RunEnded
    /\ result = Returned("summary", "Summary.")
    /\ summaries = 1
    /\ rounds >= 1

\* C6 as stated: a command timeout never terminates the run.
C6_AsStated == ~(result.kind = "error" /\ result.value = "TimeoutExpired")

\* C7 as stated: a failure of the remote tool invocation never terminates the run.
C7_AsStated == result.kind = "error" => result.value # "McpError"

\* a name that is neither the local command tool nor a reverse-index key
IsUnknownName(n) ==
    /\ n # "bash"
    /\ \A i \in 1..Len(REVERSE_INDEX_keys) : REVERSE_INDEX_keys[i] # n

C9_AsStated == result # Raised("JSONDecodeError", "loop")

\* C10 as stated: the first request of every run carries no continuation handle and
\* the step and tool-call counters start from zero.
C10_AsStated ==
    pc = "send_first" =>
        /\ inflight.previous_response_id = NoHandle
        /\ inflight.store
        /\ step_count = 0
        /\ tool_calls = 0

\* the ids of the tool-call requests of a response, in the order of the response
RequestIdSeq(r) ==
    [ i \in 1..Len(ToolCallRequests(r)) |->
        IF Truthy(ToolCallRequests(r)[i].call_id)
        THEN ToolCallRequests(r)[i].call_id
        ELSE ToolCallRequests(r)[i].id ]

\* requests sent with the tools exposed in the current run
ToolExposedRequests == nreq - summaries

\* C11 as stated: the number of tool-exposed requests sent in one run never exceeds
\* max_steps, for every max_steps >= 0.
C11_AsStated == runs >= 1 => ToolExposedRequests <= max_steps

\* C11, what holds: a run sends at most max_steps + 1 tool-exposed requests and
\* inspects at most max_steps responses.
C11_AtMostOneMore ==
    /\ runs >= 1 => ToolExposedRequests <= max_steps + 1
    /\ step_count <= max_steps

\* C12: a decline sends one request whose input is the corrective user message alone,
\* with the tools exposed, and does not end the run; the response to it becomes the
\* turn the loop inspects next, as any other response, while step budget remains.
C12_DeclineRedirects ==
    [][ /\ declines' = declines + 1 =>
              /\ confirm
              /\ pc = "calls" /\ pc' = "send_nudge"
              /\ result' = NoResult
              /\ nreq' = nreq + 1
              /\ inflight'.input = NudgeInput
              /\ inflight'.tools
              /\ \A i \in 1..Len(inflight'.input) : ~IsOutputItem(inflight'.input[i])
        /\ (pc = "await_nudge" /\ pc' # "idle") =>
              /\ pc' = "loop"
              /\ nudged'
              /\ resp'.id = issued'
        /\ (pc = "loop" /\ nudged /\ step <= max_steps) =>
              IF agent = "BashAgent"
              THEN LET e == _extract_single_function_call(resp) IN
                      IF e.raises # None
                      THEN result' = Raised(e.raises, "loop")
                      ELSE /\ calls' = e.proposal
                           /\ pc' = IF Len(e.proposal) = 0 THEN "summary" ELSE "calls"
              ELSE /\ calls' = _extract_function_calls(resp)
                   /\ pc' = IF Len(ToolCallRequests(resp)) > 0 THEN "calls" ELSE "summary"
      ]_vars

\* C12 witness: after a decline, a request of the response to the corrective message
\* is up for execution
C12_Witness ==
    /\ confirm
    /\ declines = 1
    /\ nudged
    /\ pc = "calls"
    /\ idx = 1
    /\ Len(calls) >= 1

\* C13 as stated: a decline consumes none of the step budget, so a run that ends with
\* the step-limit message has performed max_steps rounds of tool execution.
C13_AsStated == (RunEnded /\ result.kind = "step_limit") => rounds = max_steps

\* C13, what holds: every decline takes one iteration of the for loop.
C13_DeclineTakesAStep ==
    (RunEnded /\ result.kind = "step_limit") => rounds + declines = max_steps

\* C14 as stated: while the run goes on, the tool-call counter grows by one exactly
\* in the steps that produce a function_call_output; declined requests are not
\* counted.
C14_AsStated ==
    [][ pc' # "idle" =>
            tool_calls' - tool_calls =
                (IF Len(outputs') = Len(outputs) + 1 THEN 1 ELSE 0) ]_vars

\* C14, what holds: BashAgent counts the requests it executes; DocsAgent and
\* BashAndMcpAgent count every request they take from the turn, declined ones included.
C14_CountsTaken ==
    [][ pc' # "idle" =>
            tool_calls' - tool_calls =
                (IF \/ Len(outputs') = Len(outputs) + 1
                    \/ declines' = declines + 1 /\ agent = "BashAndMcpAgent"
                 THEN 1 ELSE 0) ]_vars

C16_AsStated ==
    [][ (MultiCallAgent /\ pc = "loop") =>
            pc' = IF Len(ToolCallRequests(resp)) > 0 THEN "calls" ELSE "summary" ]_vars

\* C16, what holds: a response the loop inspects is handled by its requests alone.
C16_WhenInspected ==
    [][ (MultiCallAgent /\ pc = "loop" /\ step <= max_steps) =>
            pc' = IF Len(ToolCallRequests(resp)) > 0 THEN "calls" ELSE "summary" ]_vars

\* C17 as stated: in BashAndMcpAgent.run a request goes to the command executor if
\* and only if its name begins with "bash".
C17_AsStated ==
    [][ (agent = "BashAndMcpAgent" /\ pc = "calls" /\ idx' = idx + 1) =>
            (tool' = "bash" <=> BeginsWith(calls[idx].name, "bash")) ]_vars

\* C17 amended: in BashAndMcpAgent.run a request goes to the command executor if and
\* only if its name is exactly "bash"; every other name is looked up in the reverse
\* index and, when found, goes to the dispatcher with the entry's mcp_name; when not
\* found, no backend is invoked.
C17_RoutesExactName ==
    [][ (agent = "BashAndMcpAgent" /\ pc = "calls" /\ idx' = idx + 1) =>
            LET n == calls[idx].name IN
            /\ tool' = "bash" <=> n = "bash"
            /\ (n # "bash" /\ n \in DOMAIN REVERSE_INDEX) =>
                  tool' = REVERSE_INDEX[n].mcp_name
            /\ (n # "bash" /\ n \notin DOMAIN REVERSE_INDEX) => tool' = "none" ]_vars

\* C17 witness: a name that begins with "bash" was answered without the command
\* executor, and the request after it went to the dispatcher under its mcp_name
C17_Witness ==
    /\ agent = "BashAndMcpAgent"
    /\ pc = "calls"
    /\ Len(calls) = 2
    /\ idx = 3
    /\ calls[1].name = PrefixedName
    /\ Contains(outputs[1].output.value, "Unknown tool: " \o PrefixedName)
    /\ calls[2].name = REVERSE_INDEX_keys[1]
    /\ tool = "resolve-library-id"

\* C18: the output of every function_call_output item collected or sent is a string.
C18_OutputsAreStrings ==
    /\ \A i \in 1..Len(outputs) : outputs[i].output.type = "str"
    /\ \A i \in 1..Len(inflight.input) :
          IsOutputItem(inflight.input[i]) => inflight.input[i].output.type = "str"

\* C18 witness: a serialized command result and an empty remote result on the wire
C18_Witness ==
    /\ pc = "send_outputs"
    /\ Len(inflight.input) = 2
    /\ Contains(inflight.input[1].output.value, "\"returncode\": 0")
    /\ inflight.input[2].output = PyStr("")

\* C19: the requests of a turn are handled one after the other in the order of the
\* response, and the outputs are collected and sent in that order.
C19_InOrder ==
    /\ (pc = "calls" /\ MultiCallAgent) =>
          /\ Len(calls) = Len(RequestIdSeq(resp))
          /\ \A i \in 1..Len(calls) : calls[i].id = RequestIdSeq(resp)[i]
    /\ pc = "calls" =>
          /\ idx \in 1..(Len(calls) + 1)
          /\ Len(outputs) = idx - 1
          /\ \A i \in 1..Len(outputs) : outputs[i].call_id = calls[i].id
    /\ pc = "send_outputs" =>
          /\ Len(inflight.input) = Len(calls)
          /\ \A i \in 1..Len(calls) : inflight.input[i].call_id = calls[i].id

\* C19 witness: two requests answered in the order of the response
C19_Witness ==
    /\ pc = "send_outputs"
    /\ Len(ToolCallRequests(resp)) = 2
    /\ Len(inflight.input) = 2
    /\ inflight.input[1].call_id = "call_1"
    /\ inflight.input[2].call_id = "call_2"

\* the pattern [A-Za-z_][A-Za-z0-9_]* with a length between 1 and 64
ValidFunctionName(s) ==
    /\ Len(s) \in 1..NameLimit
    /\ StartsLikeIdentifier(s)
    /\ \A i \in 1..Len(s) :
          LET c == SubSeq(s, i, i) IN IsLower(c) \/ IsUpper(c) \/ IsDigit(c) \/ c = "_"

\* C20 as stated: for every tool name and every server_label the sanitized name
\* matches [A-Za-z_][A-Za-z0-9_]* and has 1 to 64 characters, and so does the name of
\* every bridged tool.
C20_AsStated ==
    /\ \A i \in 1..Len(mcp_tools) :
          Truthy(DescriptorName(mcp_tools[i])) =>
             ValidFunctionName(
                _sanitize_function_name(DescriptorName(mcp_tools[i]), server_label))
    /\ \A i \in 1..Len(tools) : ValidFunctionName(tools[i].name)

\* C20, what holds: the names are valid when the server label is empty or is itself
\* a valid name.
C20_ValidUnderValidLabel ==
    (server_label = "" \/ ValidFunctionName(server_label)) => C20_AsStated

\* ------------------------------------------------------------------ bridged names
\* the descriptors the loop has passed that carry a name, in their order
HasName(t) == Truthy(t.name) \/ Truthy(t.toolName)

NamedDescriptors == SelectSeq(SubSeq(mcp_tools, 1, t_idx), HasName)

\* C21 as stated: the names of the bridged tools of one batch are pairwise distinct.
C21_AsStated ==
    \A i, j \in 1..Len(tools) : i # j => tools[i].name # tools[j].name

\* C21, what holds: two bridged tools share a name only when their descriptors'
\* names sanitize to the same text.
C21_DistinctWhenSanitizedDiffer ==
    Len(tools) = Len(NamedDescriptors) =>
       \A i, j \in 1..Len(tools) :
          _sanitize_function_name(DescriptorName(NamedDescriptors[i]), server_label)
             # _sanitize_function_name(DescriptorName(NamedDescriptors[j]), server_label)
          => tools[i].name # tools[j].name

\* C22 as stated: the reverse index has as many entries as there are bridged tools,
\* every key is the name of exactly one bridged tool, and looking up a bridged
\* tool's name yields the original name of the descriptor the tool was built from.
C22_AsStated ==
    /\ Cardinality(DOMAIN reverse_index) = Len(tools)
    /\ \A k \in DOMAIN reverse_index :
          Cardinality({ i \in 1..Len(tools) : tools[i].name = k }) = 1
    /\ Len(tools) = Len(NamedDescriptors)
    /\ \A i \in 1..Len(tools) :
          /\ tools[i].name \in DOMAIN reverse_index
          /\ reverse_index[tools[i].name].mcp_name = DescriptorName(NamedDescriptors[i])

\* C22, what holds: every bridged tool's name is a key, and the entry names the last
\* descriptor that was bridged under that name.
C22_LastDescriptorWins ==
    /\ DOMAIN reverse_index = { tools[i].name : i \in 1..Len(tools) }
    /\ Len(tools) = Len(NamedDescriptors)
    /\ \A k \in DOMAIN reverse_index :
          LET last == CHOOSE i \in 1..Len(tools) :
                         /\ tools[i].name = k
                         /\ \A j \in 1..Len(tools) : tools[j].name = k => j <= i
          IN  reverse_index[k].mcp_name = DescriptorName(NamedDescriptors[last])

\* a name that matches ^[a-z_][a-z0-9_]*$
MatchesLowerIdentifier(n) ==
    /\ Len(n) >= 1
    /\ LET c == SubSeq(n, 1, 1) IN IsLower(c) \/ c = "_"
    /\ \A i \in 1..Len(n) :
          LET c == SubSeq(n, i, i) IN IsLower(c) \/ IsDigit(c) \/ c = "_"

\* t with one leading "<label>__" removed
WithoutLabel(t, label) ==
    IF BeginsWith(t, label \o "__")
    THEN SubSeq(t, Len(label) + 3, Len(t))
    ELSE t

C27_NamedInOrder ==
    /\ Len(tools) = Len(NamedDescriptors)
    /\ \A i \in 1..Len(tools) :
          tools[i].name =
             _sanitize_function_name(DescriptorName(NamedDescriptors[i]), server_label)

C27_Witness ==
    /\ t_idx = Len(mcp_tools)
    /\ t_idx = MaxTools
    /\ ~HasName(mcp_tools[1])
    /\ HasName(mcp_tools[2])
    /\ Len(tools) = 1

\* ------------------------------------------------------------------ bridged schemas
\* the schema a descriptor carries: input_schema, or inputSchema when it has none
RawSchema(t) ==
    LET s1 == Getattr(t.input_schema, ObjNone)
    IN  IF s1.kind # "none" THEN s1 ELSE Getattr(t.inputSchema, ObjNone)

\* v is an empty dict
IsEmptyDict(h, v) == v.kind = "dict" /\ DOMAIN h[v.ref] = {}

\* v is exactly {"type": "object", "properties": {}}
IsDefaultSchema(h, v) ==
    /\ v.kind = "dict"
    /\ DOMAIN h[v.ref] = {"type", "properties"}
    /\ h[v.ref]["type"] = ObjStr("object")
    /\ IsEmptyDict(h, h[v.ref]["properties"])

\* v and w are equal as Python values (==)
RECURSIVE SameValue(_, _, _)
SameValue(h, v, w) ==
    /\ v.kind = w.kind
    /\ v.atom = w.atom
    /\ v.kind = "dict" =>
          /\ DOMAIN h[v.ref] = DOMAIN h[w.ref]
          /\ \A k \in DOMAIN h[v.ref] : SameValue(h, h[v.ref][k], h[w.ref][k])

\* C24: a descriptor whose raw input schema is not a mapping (absent, None, a list,
\* a string, a number) gets exactly {"type": "object", "properties": {}} as the
\* parameters of its bridged tool.
C24_DefaultForNonMappings ==
    /\ Len(tools) = Len(NamedDescriptors)
    /\ \A i \in 1..Len(tools) :
          RawSchema(NamedDescriptors[i]).kind # "dict" =>
             IsDefaultSchema(heap, tools[i].parameters)

C24_Witness ==
    /\ Len(tools) = 2
    /\ NamedDescriptors[1].input_schema = ObjList("[1]")
    /\ NamedDescriptors[2].input_schema = ObjAbsent
    /\ NamedDescriptors[2].inputSchema = ObjAbsent
    /\ IsDefaultSchema(heap, tools[1].parameters)
    /\ IsDefaultSchema(heap, tools[2].parameters)

\* C25: for a descriptor whose input schema is a mapping, the parameters have no
\* $schema key; have a type key (the input's own, or "object" when it had none);
\* have a properties key whenever their type is "object" (the input's own, or an
\* empty mapping when it had none); and are otherwise equal to the input.
C25_Normalized ==
    /\ Len(tools) = Len(NamedDescriptors)
    /\ \A i \in 1..Len(tools) :
          LET raw == RawSchema(NamedDescriptors[i])
              in == heap[raw.ref]
              out == heap[tools[i].parameters.ref]
              rest == (DOMAIN in) \ {"$schema", "type", "properties"}
          IN  raw.kind = "dict" =>
                 /\ "$schema" \notin DOMAIN out
                 /\ "type" \in DOMAIN out
                 /\ IF "type" \in DOMAIN in
                    THEN SameValue(heap, out["type"], in["type"])
                    ELSE out["type"] = ObjStr("object")
                 /\ out["type"] = ObjStr("object") => "properties" \in DOMAIN out
                 /\ "properties" \in DOMAIN out =>
                       IF "properties" \in DOMAIN in
                       THEN SameValue(heap, out["properties"], in["properties"])
                       ELSE /\ IsEmptyDict(heap, out["properties"])
                            /\ out["type"] = ObjStr("object")
                 /\ "properties" \in DOMAIN in => "properties" \in DOMAIN out
                 /\ (DOMAIN out) \ {"type", "properties"} = rest
                 /\ \A k \in rest : SameValue(heap, out[k], in[k])

C25_Witness ==
    /\ Len(tools) = 2
    /\ RawSchema(NamedDescriptors[1]) = ObjDict(2)
    /\ RawSchema(NamedDescriptors[2]) = ObjDict(7)
    /\ DOMAIN heap[tools[1].parameters.ref] = {"type", "properties", "required"}
    /\ DOMAIN heap[tools[2].parameters.ref] = {"type"}

\* C26: bridging leaves its input as it was (the descriptors and every dict of
\* their schemas), and no dict reachable from a bridged tool's parameters is a
\* dict of the input, so that changing the parameters later cannot change it.
C26_InputUntouched ==
    [][ /\ mcp_tools' = mcp_tools
        /\ SubSeq(heap', 1, Len(InitialHeap)) = SubSeq(heap, 1, Len(InitialHeap))
        /\ \A i \in 1..Len(tools') :
              Reach(heap', tools'[i].parameters.ref) \cap (1..Len(InitialHeap)) = {}
      ]_vars

C26_Witness ==
    /\ Len(tools) = 1
    /\ RawSchema(mcp_tools[1]) = ObjDict(2)
    /\ Cardinality(Reach(heap, tools[1].parameters.ref)) = 3
    /\ SubSeq(heap, 1, Len(InitialHeap)) = InitialHeap

\* ------------------------------------------------------------------ flattening
\* call() has flattened the result it received
Flattened == d_pc \in {"exit_session", "exit_stdio_client", "returned"} /\ ~d_exc

\* the structured-data fields a part carries
Carried(c) == { v \in {c.json, c.data} : v.kind \notin {"absent", "none"} }

\* a value serialized as indented JSON, or its str() when that fails
Rendering(v) == IF Serializable(v) THEN JsonDumps(DataHeap, v) ELSE v.atom

\* f is the fragment the stated rule gives for the part c
IsStatedFragment(c, f) ==
    IF c.text.kind \notin {"absent", "none"} THEN f = c.text.atom
    ELSE IF Carried(c) # {} THEN f \in { Rendering(v) : v \in Carried(c) }
    ELSE f = c.repr

\* the json field holds a falsy value (0, "", {}) and there is no data field
FalsyJsonOnly(c) ==
    /\ c.json.kind \notin {"absent", "none"}
    /\ ~IsTruthy(DataHeap, c.json)
    /\ c.data.kind \in {"absent", "none"}

\* C28 as stated: the fragment of a part is its text when it carries a text field;
\* else, when it carries a structured-data field, whatever value the field holds,
\* that value as indented JSON (its str() when serialization fails); else the
\* str() of the part.
C28_AsStated ==
    Flattened =>
       LET content == ContentOf(d_result)
       IN  /\ \A i \in 1..Len(content) : IsStatedFragment(content[i], Fragment(content[i]))
           /\ Len(content) = 1 => IsStatedFragment(content[1], d_out)

\* C28, what holds: the rule is followed for every part but those whose json field
\* holds a falsy value while the part has no data field.
C28_UnlessFalsyJson ==
    Flattened =>
       LET content == ContentOf(d_result)
       IN  /\ \A i \in 1..Len(content) :
                 ~FalsyJsonOnly(content[i]) =>
                    IsStatedFragment(content[i], Fragment(content[i]))
           /\ (Len(content) = 1 /\ ~FalsyJsonOnly(content[1])) =>
                 IsStatedFragment(content[1], d_out)

\* the fragments of the parts from the i-th on, each followed by a newline but the
\* last
RECURSIVE LinesFrom(_, _)
LinesFrom(content, i) ==
    IF i > Len(content) THEN ""
    ELSE IF i = Len(content) THEN Fragment(content[i])
    ELSE Fragment(content[i]) \o "\n" \o LinesFrom(content, i + 1)

\* C29: the flattened text is one fragment per content part, in the order of the
\* parts, with a single newline between two fragments; a result without parts or
\* without content flattens to the empty string.
C29_OneFragmentPerPart ==
    Flattened =>
       /\ d_out = LinesFrom(ContentOf(d_result), 1)
       /\ (d_result.kind # "list" \/ d_result.parts = << >>) => d_out = ""

C29_Witness ==
    /\ d_pc = "returned"
    /\ d_result.kind = "list"
    /\ Len(d_result.parts) = 2
    /\ d_result.parts[1].text = ObjStr("")
    /\ d_result.parts[2].json = ObjDict(2)
    /\ d_out = "\n{\n  \"a\": 1\n}"

\* ------------------------------------------------------------------ sessions
\* C30: every call of the dispatcher opens a session, initializes it, calls the
\* tool and closes the session, in this order, and the session is closed however
\* the call ends; at most one session is open at a time; the server receives the
\* calls in the order in which the loop made them.
C30_SessionPerCall ==
    /\ d_open <= 1
    /\ d_stdio <= 1
    /\ d_pc \in {"idle", "returned", "raised"} => d_open = 0 /\ d_stdio = 0
    /\ d_pc = "returned" => d_events = << "open", "initialize", "call_tool", "close" >>
    /\ d_pc = "raised" =>
          d_events \in { << >>,
                         << "open", "initialize", "close" >>,
                         << "open", "initialize", "call_tool", "close" >> }
    /\ Len(d_log) <= d_idx
    /\ \A i \in 1..Len(d_log) : d_log[i] = d_calls[i]
    /\ d_pc = "returned" => Len(d_log) = d_idx

C30_Witness ==
    /\ d_pc = "returned"
    /\ d_idx = 2
    /\ d_calls[1].name # d_calls[2].name
    /\ d_log = d_calls
    /\ d_open = 0

\* ------------------------------------------------------------------ reverse index
\* C38: every entry k -> {server_label: s, mcp_name: m} of the reverse index has s
\* equal to the label passed, m the name of a descriptor of the batch and k the
\* sanitized m under s; the keys are exactly the names of the bridged tools.
C38_EntriesPointBack ==
    /\ \A k \in DOMAIN reverse_index :
          /\ reverse_index[k].server_label = server_label
          /\ \E i \in 1..Len(mcp_tools) :
                DescriptorName(mcp_tools[i]) = reverse_index[k].mcp_name
          /\ _sanitize_function_name(reverse_index[k].mcp_name,
                                     reverse_index[k].server_label) = k
    /\ DOMAIN reverse_index = { tools[i].name : i \in 1..Len(tools) }

C38_Witness ==
    /\ t_idx = Len(mcp_tools)
    /\ Len(tools) = 2
    /\ server_label = "my-server"
    /\ DOMAIN reverse_index = { "my-server__get_docs" }
    /\ reverse_index["my-server__get_docs"].mcp_name = "get_docs"
    /\ DescriptorName(mcp_tools[1]) = "Get Docs"

\* ------------------------------------------------------------------ BashToolCaller
\* C36 as stated: whenever summarize_result has sent its follow-up request, the
\* call_id of its function_call_output is that of a function_call item of the
\* response named by previous_response_id, and the tools are disabled.
C36_AsStated ==
    c_followup.sent =>
       /\ c_followup.previous_response_id \in DOMAIN c_stored
       /\ c_followup.call_id \in c_stored[c_followup.previous_response_id]
       /\ ~c_followup.tools
       /\ c_followup.tool_choice = "none"

\* C36, what holds: the ids the caller keeps belong together unless the last
\* propose_command raised after it recorded the response id and before it recorded
\* the call id; the follow-up request always has the tools disabled.
C36_UnlessProposeFailedHalfway ==
    /\ (Truthy(c_last_tool_call_id) /\ ~c_torn) =>
          /\ c_first_response_id \in DOMAIN c_stored
          /\ c_last_tool_call_id \in c_stored[c_first_response_id]
    /\ c_followup.sent => ~c_followup.tools /\ c_followup.tool_choice = "none"

\* C37: a summarize_result made while the response id or the call id is missing
\* ends with RuntimeError, sends nothing and changes nothing of the caller.
C37_RuntimeErrorAndNothingSent ==
    [][ ( /\ c_op' = "summarize_result"
          /\ c_ops' = c_ops + 1
          /\ (c_first_response_id = NoHandle \/ ~Truthy(c_last_tool_call_id)) )
        => /\ c_outcome' = "RuntimeError"
           /\ c_nreq' = c_nreq
           /\ UNCHANGED << c_task, c_first_response_id, c_last_tool_call_id, c_issued,
                           c_stored, c_followup >>
      ]_vars

C37_Witness ==
    /\ c_op = "summarize_result"
    /\ c_outcome = "RuntimeError"
    /\ c_ops = 1
    /\ c_nreq = 0
    /\ c_first_response_id = NoHandle
    /\ ~c_followup.sent

\* ---- executed requests and their observations (07: 262-348) ----

\* the request at position i of the turn reached a backend: the command executor or
\* the remote dispatcher
Executed(i) == i <= Len(outputs) /\ Route(calls[i].name) \in { "bash", "mcp" }

\* the request on the wire carries the observation collected at position i
Submitted(i) ==
    \E j \in 1..Len(inflight.input) :
       /\ IsOutputItem(inflight.input[j])
       /\ inflight.input[j].call_id = calls[i].id
       /\ inflight.input[j].output = outputs[i].output

\* C31 as stated: the result of every executed tool call is in the next request of
\* the run, also when a later request of the same turn is declined.
C31_AsStated ==
    pc \in { "send_outputs", "send_nudge" } =>
       \A i \in 1..Len(calls) : Executed(i) => Submitted(i)

\* C31, what holds: the results are submitted when no request of the turn is declined.
C31_UnlessDeclined ==
    pc = "send_outputs" => \A i \in 1..Len(calls) : Executed(i) => Submitted(i)

\* ---- declined turns (07: 278-299, 342-344; 04: 159-167) ----

\* the request on the wire carries an observation
CarriesOutputs == \E j \in 1..Len(inflight.input) : IsOutputItem(inflight.input[j])

\* C32: once a request of a turn has been declined, no request of the rest of the run
\* carries a function_call_output for a call of that turn's response (observations
\* go only to the response they continue, and that is never one with a declined
\* request), and the request sent on the decline is the corrective user message alone.
C32_DeclinedNeverAnswered ==
    /\ CarriesOutputs =>
          /\ inflight.previous_response_id \notin declinedIn
          /\ pc = "send_outputs" =>
                /\ inflight.previous_response_id = resp.id
                /\ \A j \in 1..Len(inflight.input) :
                      \E i \in 1..Len(calls) : inflight.input[j].call_id = calls[i].id
    /\ pc = "send_nudge" =>
          /\ resp.id \in declinedIn
          /\ inflight.previous_response_id = resp.id
          /\ inflight.input = NudgeInput

\* C32 witness: observations are sent in a turn that follows a declined one
C32_Witness ==
    /\ pc = "send_outputs"
    /\ declinedIn # {}
    /\ CarriesOutputs
    /\ inflight.previous_response_id \notin declinedIn

\* a step of the loop body in which a tool is run: its observation is collected or
\* its exception leaves run()
ToolRuns ==
    /\ pc = "calls"
    /\ idx <= Len(calls)
    /\ \/ Len(outputs') = Len(outputs) + 1
       \/ /\ result'.kind = "error"
          /\ result'.value \in { "TimeoutExpired", "McpError" }

\* C33: with confirmation on, a tool runs only for the request the human was shown
\* last and did not decline, and never in a turn a request of which was declined.
C33_ExecutedOnlyWhenLetThrough ==
    [][ (confirm /\ ToolRuns) =>
            /\ approved = idx
            /\ resp.id \notin declinedIn
            /\ declines' = declines ]_vars

\* C33, the turn ends with the decline: no request of a response is under
\* consideration once one of them was declined
C33_DeclineEndsTurn == (pc = "calls" /\ idx <= Len(calls)) => resp.id \notin declinedIn

\* C33 witness: with confirmation on, the second request of a turn was let through
\* and executed after the first
C33_Witness ==
    /\ confirm
    /\ pc = "calls"
    /\ approved = 2
    /\ idx = 3
    /\ Len(outputs) = 2

\* ---- termination (07: 237-376; 06: 225-317; 04: 129-210) ----

\* C34: when every request, tool and prompt returns, run() ends, and it has sent at
\* most max_steps + 1 requests by then, the summary request included.
C34_TerminatesWithinBudget ==
    /\ [](nreq <= max_steps + 1)
    /\ <>RunEnded

\* C34 witness: a run that ended after max_steps + 1 requests, declines among them
C34_Witness ==
    /\ RunEnded
    /\ max_steps = MaxSteps
    /\ nreq = max_steps + 1
    /\ declines >= 1
    /\ summaries = 1

\* ---- BashAgent: one command per step (04: 105-125, 129-136, 169-188) ----

\* C35: a step of BashAgent.run considers the first function_call item of the
\* response only: at most one command is executed, the request that follows carries
\* exactly one function_call_output, for that item's call_id, and further
\* function_call items are neither executed nor answered.
C35_FirstCallOnly ==
    agent = "BashAgent" =>
       /\ pc = "calls" =>
             /\ Len(calls) = 1
             /\ calls[1].id = FunctionCallItems(resp)[1].call_id
             /\ idx \in 1..2
             /\ Len(outputs) = idx - 1
       /\ pc = "send_outputs" =>
             /\ Len(inflight.input) = 1
             /\ IsOutputItem(inflight.input[1])
             /\ inflight.input[1].call_id = FunctionCallItems(resp)[1].call_id
             /\ inflight.previous_response_id = resp.id

\* C35 witness: the response holds two function_call items and the request that
\* follows answers the first alone
C35_Witness ==
    /\ agent = "BashAgent"
    /\ pc = "send_outputs"
    /\ Len(FunctionCallItems(resp)) = 2
    /\ Len(inflight.input) = 1
    /\ inflight.input[1].call_id = "call_1"

\* a measure of what is left of the run: the iterations left, then the position in
\* the iteration
Phase ==
    IF pc = "loop" THEN 100
    ELSE IF pc = "calls"
         THEN 50 + 2 * (Len(calls) + 1 - idx) + (IF approved < idx THEN 1 ELSE 0)
    ELSE IF pc = "summary" THEN 40
    ELSE IF pc \in Sending THEN 20
    ELSE IF pc \in Awaiting THEN 10
    ELSE 0

Rank == IF pc = "idle" THEN 0 ELSE (max_steps + 2 - step) * 1000 + Phase

\* C34, the reason: every step of a run in progress lowers the measure, which never
\* falls below zero
C34_RankDecreases ==
    /\ [](Rank >= 0)
    /\ [][pc # "idle" => Rank' < Rank]_vars

====
